---------------------------- MODULE Spec2Model ----------------------------
(***************************************************************************)
(* Duplicate-aware parallel CSV import into SAP HANA                       *)
(* (import_csv_to_hana.py, hana_client.py).                                *)
(*                                                                         *)
(* One table is imported by generate_and_execute_inserts: the identity     *)
(* (primary key or full row) is resolved from the DDL, the CSV is keyed    *)
(* into csv_records, the live table is counted and compared page by page   *)
(* by concurrent compare_batch workers, and the rows left are inserted one *)
(* statement each by concurrent execute_single_insert workers.             *)
(*                                                                         *)
(* Text is modelled as a sequence of characters (one-character strings);   *)
(* the atoms RS and RSS stand for the substrings "row selected" and        *)
(* "rows selected", which no other character of the alphabet can form.     *)
(***************************************************************************)
EXTENDS Integers, Sequences, FiniteSets, TLC

(***************************************************************************)
(* Bounds of the model.                                                    *)
(***************************************************************************)
\* rows of a CSV file
MaxCsvRows == 2
\* rows of the live table before the first run
MaxLiveRows == 1

SP == " "
DQ == "\""
SQ == "'"
RS == "row selected"
RSS == "rows selected"

(***************************************************************************)
(* Python str.strip                                                        *)
(***************************************************************************)
RECURSIVE lstrip(_, _)
lstrip(s, c) ==
    IF s # <<>> /\ Head(s) = c THEN lstrip(Tail(s), c) ELSE s

RECURSIVE rstrip(_, _)
rstrip(s, c) ==
    IF s # <<>> /\ s[Len(s)] = c THEN rstrip(SubSeq(s, 1, Len(s) - 1), c) ELSE s

strip(s, c) == rstrip(lstrip(s, c), c)

(***************************************************************************)
(* normalize_value: str(val).strip().strip('"').strip("'") if val else ''  *)
(***************************************************************************)
normalize_value(val) ==
    IF val = <<>> THEN <<>> ELSE strip(strip(strip(val, SP), DQ), SQ)

\* the same expression, inline in HanaClient.get_table_records_paginated
normalized_row_value(val) ==
    IF val = <<>> THEN <<>> ELSE strip(strip(strip(val, SP), DQ), SQ)

(***************************************************************************)
(* Identifiers of the DDL                                                  *)
(***************************************************************************)
ID == <<"I", "D">>
N1 == <<"N">>
ZZ == <<"Z", "Z">>
PRIMARY == <<"P", "R", "I", "M", "A", "R", "Y">>
KEY == <<"K", "E", "Y">>
INVERTED == <<"I", "N", "V", "E", "R", "T", "E", "D">>
VALUE == <<"V", "A", "L", "U", "E">>

UpperOf == [c \in {"i", "d", "n", "z", "k", "e", "y"} |->
               CASE c = "i" -> "I" [] c = "d" -> "D" [] c = "n" -> "N"
                 [] c = "z" -> "Z" [] c = "k" -> "K" [] c = "e" -> "E"
                 [] c = "y" -> "Y"]

upper(s) == [i \in 1..Len(s) |-> IF s[i] \in DOMAIN UpperOf THEN UpperOf[s[i]] ELSE s[i]]

Letters == {"A", "D", "E", "I", "K", "L", "M", "N", "P", "R", "T", "U", "V", "Y", "Z"}
              \cup DOMAIN UpperOf
Digits == {"0", "1", "2", "3", "4", "5", "6", "7", "8", "9"}

\* [A-Z_$] and [A-Z0-9_$] under re.IGNORECASE
IsIdentStart(c) == c \in Letters \cup {"_", "$"}
IsIdentChar(c) == IsIdentStart(c) \/ c \in Digits

Min(S) == CHOOSE x \in S : \A y \in S : x <= y
Max(S) == CHOOSE x \in S : \A y \in S : x >= y

(***************************************************************************)
(* re.search(r'["\']?([A-Z_$][A-Z0-9_$]+)["\']?', part): group 1 of the    *)
(* leftmost match, <<>> when there is none.  The group needs a start       *)
(* character followed by at least one more identifier character.           *)
(***************************************************************************)
col_match(part) ==
    LET starts == {i \in 1..(Len(part) - 1) :
                      IsIdentStart(part[i]) /\ IsIdentChar(part[i + 1])}
    IN  IF starts = {} THEN <<>>
        ELSE LET i == Min(starts)
                 j == Max({k \in i..Len(part) :
                              \A m \in i..k : IsIdentChar(part[m])})
             IN  SubSeq(part, i, j)

(***************************************************************************)
(* extract_primary_key_from_create_sql.  The DDL is given by its parsed    *)
(* column list and its PRIMARY KEY clause: pk_section is the argument list *)
(* split on commas and stripped, <<>> when the DDL has no such clause.     *)
(* The result None of the code is <<>> here: the caller tests only its     *)
(* truth value.                                                            *)
(***************************************************************************)
RECURSIVE pk_columns_of(_)
pk_columns_of(parts) ==
    IF parts = <<>> THEN <<>>
    ELSE LET m == col_match(Head(parts))
             rest == pk_columns_of(Tail(parts))
         IN  IF m # <<>> /\ upper(m) \notin {PRIMARY, KEY, INVERTED, VALUE}
             THEN <<m>> \o rest
             ELSE rest

extract_primary_key_from_create_sql(pk_section) == pk_columns_of(pk_section)

(***************************************************************************)
(* generate_and_execute_inserts, lines 119-140: the identity of the table. *)
(* pk_scan is the loop over pk_columns: the positions of the names in      *)
(* columns, and whether every name was found (the loop breaks at the first *)
(* name that is not a column, and then drops the primary key).             *)
(***************************************************************************)
index(columns, name) == Min({i \in 1..Len(columns) : columns[i] = name})

in_list(name, columns) == \E i \in 1..Len(columns) : columns[i] = name

\* a scan that passes over a name that is not a column instead of breaking
RECURSIVE pk_scan_skipping_missing(_, _)
pk_scan_skipping_missing(pk_columns, columns) ==
    IF pk_columns = <<>> THEN [found |-> TRUE, pk_indices |-> <<>>]
    ELSE LET rest == pk_scan_skipping_missing(Tail(pk_columns), columns)
         IN  IF in_list(Head(pk_columns), columns)
             THEN [found |-> TRUE,
                   pk_indices |-> <<index(columns, Head(pk_columns))>> \o rest.pk_indices]
             ELSE rest

RECURSIVE pk_scan(_, _)
pk_scan(pk_columns, columns) ==
    IF pk_columns = <<>> THEN [found |-> TRUE, pk_indices |-> <<>>]
    ELSE IF in_list(Head(pk_columns), columns)
         THEN LET rest == pk_scan(Tail(pk_columns), columns)
              IN  [found |-> rest.found,
                   pk_indices |-> <<index(columns, Head(pk_columns))>> \o rest.pk_indices]
         ELSE [found |-> FALSE, pk_indices |-> <<>>]

resolve_identity(columns, pk_section) ==
    LET pk_columns == extract_primary_key_from_create_sql(pk_section)
        scan == pk_scan(pk_columns, columns)
    IN  IF pk_columns # <<>> /\ scan.found /\ scan.pk_indices # <<>>
        THEN [use_pk |-> TRUE, pk_indices |-> scan.pk_indices]
        ELSE [use_pk |-> FALSE, pk_indices |-> <<>>]

(***************************************************************************)
(* csv_records: a dict in insertion order, here a sequence of entries      *)
(* [key, row_idx, values].                                                 *)
(***************************************************************************)
dict_has(d, k) == \E i \in 1..Len(d) : d[i].key = k

\* an assignment that keeps the entry the key already has
dict_setdefault(d, k, row_idx, values) ==
    IF dict_has(d, k) THEN d
    ELSE Append(d, [key |-> k, row_idx |-> row_idx, values |-> values])

dict_set(d, k, row_idx, values) ==
    LET e == [key |-> k, row_idx |-> row_idx, values |-> values]
    IN  IF dict_has(d, k)
        THEN [i \in 1..Len(d) |-> IF d[i].key = k THEN e ELSE d[i]]
        ELSE Append(d, e)

\* a removal that leaves the entry in place
dict_keep(d, k) == d

dict_del(d, k) == SelectSeq(d, LAMBDA e : e.key # k)

dict_keys(d) == {d[i].key : i \in 1..Len(d)}

(***************************************************************************)
(* Lines 147-164: one CSV row.  Short rows are padded with '' and long     *)
(* rows cut to len(columns); the key is the normalized primary-key         *)
(* projection or the normalized full row.                                  *)
(***************************************************************************)
pad_row(row, n) == [i \in 1..n |-> IF i <= Len(row) THEN row[i] ELSE <<>>]

csv_key(values, ident) ==
    IF ident.use_pk
    THEN [k \in 1..Len(ident.pk_indices) |-> normalize_value(values[ident.pk_indices[k]])]
    ELSE [k \in 1..Len(values) |-> normalize_value(values[k])]

RECURSIVE read_csv(_, _, _, _, _)
read_csv(rows, row_idx, ncols, ident, records) ==
    IF rows = <<>> THEN records
    ELSE IF Head(rows) = <<>>
         THEN read_csv(Tail(rows), row_idx + 1, ncols, ident, records)
         ELSE LET values == pad_row(Head(rows), ncols)
              IN  read_csv(Tail(rows), row_idx + 1, ncols, ident,
                           dict_set(records, csv_key(values, ident), row_idx, values))

(***************************************************************************)
(* HanaClient.execute_query(query, timeout).  The hdbsql process either    *)
(* exits with an exit code and its two outputs, or cannot be started, or   *)
(* never exits.  The call returns the triple, or raises HanaClientError    *)
(* (raised, with the message in stderr), or, waiting without a time limit  *)
(* on a process that never exits, does not return (blocked).               *)
(***************************************************************************)
TIMEOUT == "Timeout ejecutando query"
ERRQ == "Error ejecutando query"

\* timeout=None
NoTimeout == -1
\* count_table_records(..., timeout: int = 60)
count_timeout == 60
\* get_table_records_paginated(..., timeout: int = 300)
page_timeout == 300
\* test_connection: execute_query("SELECT 1 FROM DUMMY;", timeout=10)
connection_timeout == 10

Exits(returncode, stdout, stderr) ==
    [kind |-> "exits", returncode |-> returncode, stdout |-> stdout, stderr |-> stderr]

NeverExits == [kind |-> "never_exits", returncode |-> 0, stdout |-> <<>>, stderr |-> <<>>]

CannotRun == [kind |-> "cannot_run", returncode |-> 0, stdout |-> <<>>, stderr |-> <<>>]

Answer(raised, blocked, returncode, stdout, stderr) ==
    [raised |-> raised, blocked |-> blocked, returncode |-> returncode,
     stdout |-> stdout, stderr |-> stderr]

Returned(returncode, stderr) == Answer(FALSE, FALSE, returncode, <<>>, stderr)

Raised(message) == Answer(TRUE, FALSE, 0, <<>>, message)

Blocked == Answer(FALSE, TRUE, 0, <<>>, <<>>)

execute_query(timeout, process) ==
    CASE process.kind = "exits" ->
             Answer(FALSE, FALSE, process.returncode, process.stdout, process.stderr)
      [] process.kind = "never_exits" ->
             IF timeout = NoTimeout THEN Blocked ELSE Raised(<<TIMEOUT>>)
      [] OTHER -> Raised(<<ERRQ>>)

(***************************************************************************)
(* HanaClient.get_table_records_paginated, lines 198-225: the rows of the  *)
(* client output, parsed.  The first non-empty row is the header; a row    *)
(* whose text holds "row selected" or "rows selected" is dropped.          *)
(***************************************************************************)
has_rows_selected(row) ==
    \E i \in 1..Len(row) : \E j \in 1..Len(row[i]) : row[i][j] \in {RS, RSS}

RECURSIVE parse_rows(_, _, _)
parse_rows(rows, ncols, header_skipped) ==
    IF rows = <<>> THEN <<>>
    ELSE IF Head(rows) = <<>> THEN parse_rows(Tail(rows), ncols, header_skipped)
    ELSE IF ~header_skipped THEN parse_rows(Tail(rows), ncols, TRUE)
    ELSE IF has_rows_selected(Head(rows)) THEN parse_rows(Tail(rows), ncols, TRUE)
    ELSE LET values == pad_row(Head(rows), ncols)
         IN  <<[k \in 1..ncols |-> normalized_row_value(values[k])]>>
                 \o parse_rows(Tail(rows), ncols, TRUE)

\* lines 177-196 and 226-227: no columns, a non-zero exit code, no output
\* or an exception give the empty list
get_table_records_paginated(columns, process) ==
    LET result == execute_query(page_timeout, process)
    IN  IF columns = <<>> \/ result.raised \/ result.returncode # 0 \/ result.stdout = <<>>
        THEN <<>>
        ELSE parse_rows(result.stdout, Len(columns), FALSE)

(***************************************************************************)
(* compare_batch, lines 200-207: the keys of a fetched page.               *)
(***************************************************************************)
hana_key(hana_record, ident) ==
    IF ident.use_pk
    THEN [k \in 1..Len(ident.pk_indices) |-> normalize_value(hana_record[ident.pk_indices[k]])]
    ELSE hana_record

hana_normalized_of(hana_batch, ident) ==
    [i \in 1..Len(hana_batch) |-> hana_key(hana_batch[i], ident)]

(***************************************************************************)
(* execute_single_insert, lines 287-299.  The client's error text is a     *)
(* sequence of characters and atoms; UC and DUP stand for the substrings   *)
(* "unique constraint" and "duplicate", Uc and Dup for spellings of them   *)
(* with capitals.  result is what client.execute_query gave: it raised, or *)
(* returned (returncode, stdout, stderr).                                  *)
(* status: 1 inserted, 0 duplicate (skip), -1 error.  error_msg is <<>>    *)
(* for None, else one message with the row ordinal ("Linea {row_idx}: ..").*)
(***************************************************************************)
UC == "unique constraint"
Uc == "Unique Constraint"
DUP == "duplicate"
Dup == "Duplicate"

lower(text) ==
    [i \in 1..Len(text) |->
        CASE text[i] = Uc -> UC [] text[i] = Dup -> DUP [] OTHER -> text[i]]

contains(text, atom) == \E i \in 1..Len(text) : text[i] = atom

Linea(row_idx, text) == <<[row_idx |-> row_idx, text |-> text]>>

\* a classification that takes every non-zero exit code for a failure
execute_single_insert_without_duplicates(row_idx, result) ==
    IF result.raised THEN [status |-> -1, error_msg |-> Linea(row_idx, result.stderr)]
    ELSE IF result.returncode = 0 THEN [status |-> 1, error_msg |-> <<>>]
    ELSE [status |-> -1,
          error_msg |-> Linea(row_idx, IF result.stderr # <<>> THEN strip(result.stderr, SP)
                                       ELSE <<"Error desconocido">>)]

\* a classification that compares the error text without lower-casing it
execute_single_insert_case_sensitive(row_idx, result) ==
    IF result.raised THEN [status |-> -1, error_msg |-> Linea(row_idx, result.stderr)]
    ELSE IF result.returncode = 0 THEN [status |-> 1, error_msg |-> <<>>]
    ELSE LET error_msg == IF result.stderr # <<>> THEN strip(result.stderr, SP)
                          ELSE <<"Error desconocido">>
         IN  IF contains(error_msg, UC) \/ contains(error_msg, DUP)
             THEN [status |-> 0, error_msg |-> <<>>]
             ELSE [status |-> -1, error_msg |-> Linea(row_idx, error_msg)]

execute_single_insert(row_idx, result) ==
    IF result.raised THEN [status |-> -1, error_msg |-> Linea(row_idx, result.stderr)]
    ELSE IF result.returncode = 0 THEN [status |-> 1, error_msg |-> <<>>]
    ELSE LET error_msg == IF result.stderr # <<>> THEN strip(result.stderr, SP)
                          ELSE <<"Error desconocido">>
         IN  IF contains(lower(error_msg), UC) \/ contains(lower(error_msg), DUP)
             THEN [status |-> 0, error_msg |-> <<>>]
             ELSE [status |-> -1, error_msg |-> Linea(row_idx, error_msg)]

(***************************************************************************)
(* The target database behind the client.  The table was created from the  *)
(* DDL, so it enforces the declared primary key (all the names of the      *)
(* PRIMARY KEY clause) on the stored values; a table whose DDL has no such *)
(* clause accepts any row.  A statement can also fail for reasons of its   *)
(* own (a type mismatch, a lost connection), or the client can fail to     *)
(* run.                                                                    *)
(***************************************************************************)
declared_pk(pk_section) ==
    [i \in 1..Len(pk_section) |-> strip(strip(pk_section[i], DQ), SQ)]

violates_primary_key(table, values, columns, pk_section) ==
    /\ pk_section # <<>>
    /\ \E r \in 1..Len(table) :
          \A i \in 1..Len(columns) :
              in_list(columns[i], declared_pk(pk_section)) => table[r][i] = values[i]

\* what hdbsql can do with INSERT INTO table VALUES (values)
InsertProcesses(table, values, columns, pk_section) ==
    (IF violates_primary_key(table, values, columns, pk_section)
     THEN {Exits(1, <<>>, <<SP, "301", SP, UC, SP, "violated", SP>>),
           Exits(1, <<>>, <<Dup, SP, "key">>)}
     ELSE {Exits(0, <<>>, <<>>)})
    \cup {Exits(1, <<>>, <<SP, "type mismatch", SP>>), CannotRun, NeverExits}

\* the rows the client prints for SELECT ... LIMIT limit OFFSET offset
select_page(table, offset, limit) ==
    SubSeq(table, offset + 1, IF offset + limit <= Len(table) THEN offset + limit
                              ELSE Len(table))

select_stdout(columns, rows) ==
    <<columns>> \o rows
        \o <<IF Len(rows) = 1 THEN <<<<"1", SP, RS>>>> ELSE <<<<"n", SP, RSS>>>>>>

(***************************************************************************)
(* Inputs: the DDL of the table, the CSV file, the live table.             *)
(***************************************************************************)
Q(name) == <<DQ>> \o name \o <<DQ>>

CreateSqlPool ==
    { [columns |-> <<ID, N1>>, pk_section |-> <<>>],
      [columns |-> <<ID, N1>>, pk_section |-> <<Q(ID)>>],
      [columns |-> <<ID, N1>>, pk_section |-> <<Q(ID), Q(N1)>>],
      [columns |-> <<ID, N1>>, pk_section |-> <<Q(ID), Q(ZZ)>>] }

CsvRowPool ==
    { <<>>,
      << <<"1">>, <<"a">> >>,
      << <<"1">>, <<"b", SP, RS>> >>,
      << <<SQ, DQ, "1">> >> }

LiveRowPool ==
    { << <<"1">>, <<"a">> >>,
      << <<SQ, DQ, "1">>, <<"a">> >> }

SeqsUpTo(S, n) == UNION {[1..k -> S] : k \in 0..n}

RECURSIVE satisfies_primary_key(_, _, _)
satisfies_primary_key(table, columns, pk_section) ==
    table = <<>>
    \/ /\ satisfies_primary_key(SubSeq(table, 1, Len(table) - 1), columns, pk_section)
       /\ ~violates_primary_key(SubSeq(table, 1, Len(table) - 1), table[Len(table)],
                                columns, pk_section)

(***************************************************************************)
(* State                                                                   *)
(***************************************************************************)
VARIABLES
    create_sql,         \* the DDL: [columns, pk_section]
    csv_content,        \* the rows of data.csv
    db,                 \* the rows of the live table "DB_<table>"
    run,                \* which invocation of the import this is
    prev,               \* what the previous invocation returned
    pc,                 \* position of the calling thread
    ident,              \* [use_pk, pk_indices]
    csv_records,        \* the pending map
    total_csv_records,
    count,              \* client.count_table_records(...)
    cmp,                \* the compare_batch tasks, by batch number + 1
    csv_lock,           \* 0 when free, else the task holding it
    skipped_count,      \* skipped_count[0]
    skipped,
    inserted,
    failed_inserts,
    inserts_to_execute,
    ins,                \* the execute_single_insert tasks
    issued,             \* per row ordinal, the INSERT statements sent for it
    err_file,           \* the lines of <table>.err, <<>> when not written
    client_call,        \* a call of a HanaClient method: its inputs and what it returned
    main,               \* main() of import_csv_to_hana.py: its locals and the exit code
    mon,                \* a ProgressMonitor and the thread of _monitor_loop
    util_call,          \* a call of a helper function: its inputs and what it returned
    pool,               \* a ThreadPoolExecutor: its workers and the tasks submitted
    sql_file            \* execute_sql_file of execute_sql.py and its progress thread

table_vars == <<create_sql, csv_content, db, run, prev, pc, ident, csv_records,
                total_csv_records, count, cmp, csv_lock, skipped_count, skipped,
                inserted, failed_inserts, inserts_to_execute, ins, issued, err_file>>

\* what the import of one table does not touch
others == <<client_call, main, mon, util_call, pool, sql_file>>

vars == <<table_vars, others>>

inputs == <<create_sql, csv_content>>

\* count_table_records: None
CountNone == -1

\* scaled: batch_size = 1000 rows a page in the code
batch_size == 2

columns == create_sql.columns

Fresh ==
    /\ pc = "start"
    /\ ident = [use_pk |-> FALSE, pk_indices |-> <<>>]
    /\ csv_records = <<>>
    /\ total_csv_records = 0
    /\ count = CountNone
    /\ cmp = <<>>
    /\ csv_lock = 0
    /\ skipped_count = 0
    /\ skipped = 0
    /\ inserted = 0
    /\ failed_inserts = <<>>
    /\ inserts_to_execute = <<>>
    /\ ins = <<>>
    /\ issued = [r \in 1..MaxCsvRows |-> 0]
    /\ err_file = <<>>

Init ==
    /\ create_sql \in CreateSqlPool
    /\ csv_content \in SeqsUpTo(CsvRowPool, MaxCsvRows)
    /\ db \in {t \in SeqsUpTo(LiveRowPool, MaxLiveRows) :
                  satisfies_primary_key(t, create_sql.columns, create_sql.pk_section)}
    /\ run = 1
    /\ prev = <<>>
    /\ Fresh
    /\ client_call = <<>>
    /\ main = <<>>
    /\ mon = <<>>
    /\ util_call = <<>>
    /\ pool = <<>>
    /\ sql_file = <<>>

(***************************************************************************)
(* generate_and_execute_inserts, lines 119-167: identity and CSV keying.   *)
(***************************************************************************)
LoadCsv ==
    /\ pc = "start"
    /\ ident' = resolve_identity(columns, create_sql.pk_section)
    /\ csv_records' = read_csv(csv_content, 1, Len(columns), ident', <<>>)
    /\ total_csv_records' = Len(csv_records')
    /\ pc' = "count"
    /\ UNCHANGED <<others, inputs, db, run, prev, count, cmp, csv_lock, skipped_count, skipped,
                   inserted, failed_inserts, inserts_to_execute, ins, issued, err_file>>

(***************************************************************************)
(* HanaClient.count_table_records: the number the client printed, None on  *)
(* any failure.                                                            *)
(***************************************************************************)
COUNT == "COUNT"

DigitValue ==
    [c \in Digits |->
        CASE c = "0" -> 0 [] c = "1" -> 1 [] c = "2" -> 2 [] c = "3" -> 3 [] c = "4" -> 4
          [] c = "5" -> 5 [] c = "6" -> 6 [] c = "7" -> 7 [] c = "8" -> 8 [] c = "9" -> 9]

RECURSIVE digits_value(_)
digits_value(text) ==
    IF text = <<>> THEN 0
    ELSE 10 * digits_value(SubSeq(text, 1, Len(text) - 1)) + DigitValue[text[Len(text)]]

\* int(text) succeeds: an optional sign and decimal digits
is_int(text) ==
    LET digits == IF text # <<>> /\ Head(text) \in {"-", "+"} THEN Tail(text) ELSE text
    IN  digits # <<>> /\ \A i \in 1..Len(digits) : digits[i] \in Digits

int(text) ==
    IF Head(text) = "-" THEN 0 - digits_value(Tail(text))
    ELSE IF Head(text) = "+" THEN digits_value(Tail(text))
    ELSE digits_value(text)

\* lines 146-150: the stripped lines that are not empty and do not start
\* with COUNT
count_lines(stdout) ==
    LET stripped == [n \in 1..Len(stdout) |-> strip(stdout[n], SP)]
    IN  SelectSeq(stripped, LAMBDA l : l # <<>> /\ Head(l) # COUNT)

\* a parse that answers 0 when it finds no number
count_table_records_or_zero(process) ==
    LET result == execute_query(count_timeout, process)
    IN  IF ~result.raised /\ result.returncode = 0 /\ result.stdout # <<>>
           /\ count_lines(result.stdout) # <<>> /\ is_int(count_lines(result.stdout)[1])
        THEN int(count_lines(result.stdout)[1])
        ELSE 0

count_table_records(process) ==
    LET result == execute_query(count_timeout, process)
    IN  IF result.raised THEN CountNone
        ELSE IF result.returncode = 0 /\ result.stdout # <<>>
             THEN LET lines == count_lines(result.stdout)
                  IN  IF lines # <<>> /\ is_int(lines[1]) THEN int(lines[1])
                      ELSE CountNone
             ELSE CountNone

RECURSIVE digits_of(_)
digits_of(n) ==
    IF n < 10 THEN <<CHOOSE c \in Digits : DigitValue[c] = n>>
    ELSE digits_of(n \div 10) \o <<CHOOSE c \in Digits : DigitValue[c] = n % 10>>

\* what hdbsql can do with SELECT COUNT(*) on a table of n rows
CountProcesses(n) ==
    { Exits(0, <<<<COUNT, "(", "*", ")">>, digits_of(n), <<"1", SP, RS>>>>, <<>>),
      Exits(1, <<>>, <<"invalid table name">>),
      NeverExits }

\* what hdbsql can do with SELECT columns ... LIMIT limit OFFSET offset
PageProcesses(cols, table, offset, limit) ==
    { Exits(0, select_stdout(cols, select_page(table, offset, limit)), <<>>),
      Exits(1, <<>>, <<"invalid table name">>),
      NeverExits }

QueuedBatch ==
    [pc |-> "queued", fetched |-> FALSE, hana_batch |-> <<>>, hana_normalized |-> <<>>,
     duplicates_found |-> <<>>, i |-> 1, batch_skipped |-> 0]

total_batches_of(n) == (n + batch_size - 1) \div batch_size

\* lines 169-179 and 230-240: the count, the fast path, the submission of
\* one compare_batch task per page
CountRecords ==
    /\ pc = "count"
    /\ \E process \in CountProcesses(Len(db)) :
          /\ count' = count_table_records(process)
          /\ IF count' = CountNone \/ count' = 0
             THEN /\ skipped' = 0
                  /\ cmp' = <<>>
                  /\ pc' = "prepare"
             ELSE /\ skipped' = skipped
                  /\ cmp' = [b \in 1..total_batches_of(count') |-> QueuedBatch]
                  /\ pc' = "compare"
    /\ UNCHANGED <<others, inputs, db, run, prev, ident, csv_records, total_csv_records, csv_lock,
                   skipped_count, inserted, failed_inserts, inserts_to_execute, ins,
                   issued, err_file>>

(***************************************************************************)
(* compare_batch(offset), one task per page; b is batch_num + 1.           *)
(***************************************************************************)
\* lines 191-207: the page is fetched and keyed
FetchBatch(b) ==
    /\ pc = "compare"
    /\ b \in DOMAIN cmp
    /\ cmp[b].pc = "queued"
    /\ \E process \in PageProcesses(columns, db, (b - 1) * batch_size, batch_size) :
          LET hana_batch == get_table_records_paginated(columns, process)
              fetched == process.kind = "exits" /\ process.returncode = 0
          IN  cmp' = [cmp EXCEPT ![b] =
                        IF hana_batch = <<>>
                        THEN [@ EXCEPT !.pc = "done", !.fetched = fetched]
                        ELSE [@ EXCEPT !.pc = "scan", !.fetched = fetched,
                                       !.hana_batch = hana_batch,
                                       !.hana_normalized =
                                           hana_normalized_of(hana_batch, ident)]]
    /\ UNCHANGED <<others, inputs, db, run, prev, pc, ident, csv_records, total_csv_records, count,
                   csv_lock, skipped_count, skipped, inserted, failed_inserts,
                   inserts_to_execute, ins, issued, err_file>>

\* lines 210-214: one unsynchronized membership test
ScanKey(b) ==
    /\ pc = "compare"
    /\ b \in DOMAIN cmp
    /\ cmp[b].pc = "scan"
    /\ LET t == cmp[b]
           hana_key_i == t.hana_normalized[t.i]
           found == IF dict_has(csv_records, hana_key_i)
                    THEN Append(t.duplicates_found, hana_key_i)
                    ELSE t.duplicates_found
           last == t.i = Len(t.hana_normalized)
       IN  cmp' = [cmp EXCEPT ![b] =
                     [@ EXCEPT !.duplicates_found = found,
                               !.i = IF last THEN 1 ELSE t.i + 1,
                               !.pc = IF ~last THEN "scan"
                                      ELSE IF found # <<>> THEN "remove" ELSE "done"]]
    /\ UNCHANGED <<others, inputs, db, run, prev, pc, ident, csv_records, total_csv_records, count,
                   csv_lock, skipped_count, skipped, inserted, failed_inserts,
                   inserts_to_execute, ins, issued, err_file>>

\* a removal that trusts the unsynchronized scan
not_checked_again(records, hana_key_i) == TRUE

\* line 221: the check repeated inside the lock
still_pending(records, hana_key_i) == dict_has(records, hana_key_i)

\* lines 217-225: under csv_lock, one key of duplicates_found; the lock is
\* taken before the first key and released after the last
RemoveKey(b) ==
    /\ pc = "compare"
    /\ b \in DOMAIN cmp
    /\ cmp[b].pc = "remove"
    /\ csv_lock = IF cmp[b].i = 1 THEN 0 ELSE b
    /\ LET t == cmp[b]
           hana_key_i == t.duplicates_found[t.i]
           present == still_pending(csv_records, hana_key_i)
           last == t.i = Len(t.duplicates_found)
       IN  /\ csv_records' = IF present THEN dict_del(csv_records, hana_key_i)
                             ELSE csv_records
           /\ cmp' = [cmp EXCEPT ![b] =
                        [@ EXCEPT !.batch_skipped = IF present THEN @ + 1 ELSE @,
                                  !.i = IF last THEN 1 ELSE t.i + 1,
                                  !.pc = IF last THEN "done" ELSE "remove"]]
           /\ csv_lock' = IF last THEN 0 ELSE b
    /\ UNCHANGED <<others, inputs, db, run, prev, pc, ident, total_csv_records, count,
                   skipped_count, skipped, inserted, failed_inserts,
                   inserts_to_execute, ins, issued, err_file>>

\* lines 243-245: the calling thread takes one finished future
CollectBatch(b) ==
    /\ pc = "compare"
    /\ b \in DOMAIN cmp
    /\ cmp[b].pc = "done"
    /\ skipped_count' = skipped_count + cmp[b].batch_skipped
    /\ cmp' = [cmp EXCEPT ![b].pc = "collected"]
    /\ UNCHANGED <<others, inputs, db, run, prev, pc, ident, csv_records, total_csv_records, count,
                   csv_lock, skipped, inserted, failed_inserts, inserts_to_execute, ins,
                   issued, err_file>>

\* lines 247-250: every future was taken
FinishCompare ==
    /\ pc = "compare"
    /\ \A b \in DOMAIN cmp : cmp[b].pc = "collected"
    /\ skipped' = skipped_count
    /\ pc' = "prepare"
    /\ UNCHANGED <<others, inputs, db, run, prev, ident, csv_records, total_csv_records, count,
                   cmp, csv_lock, skipped_count, inserted, failed_inserts,
                   inserts_to_execute, ins, issued, err_file>>

(***************************************************************************)
(* escape_sql_value, and the value the database stores for the literal.    *)
(***************************************************************************)
RECURSIVE double_quotes(_)
double_quotes(value) ==
    IF value = <<>> THEN <<>>
    ELSE (IF Head(value) = SQ THEN <<SQ, SQ>> ELSE <<Head(value)>>)
             \o double_quotes(Tail(value))

escape_sql_value(value) == <<SQ>> \o double_quotes(value) \o <<SQ>>

RECURSIVE undouble_quotes(_)
undouble_quotes(text) ==
    IF text = <<>> THEN <<>>
    ELSE IF Len(text) >= 2 /\ text[1] = SQ /\ text[2] = SQ
         THEN <<SQ>> \o undouble_quotes(SubSeq(text, 3, Len(text)))
         ELSE <<Head(text)>> \o undouble_quotes(Tail(text))

sql_literal_value(literal) == undouble_quotes(SubSeq(literal, 2, Len(literal) - 1))

(***************************************************************************)
(* Lines 252-273: the statements of the rows left in csv_records.          *)
(***************************************************************************)
inserts_of(records) ==
    [k \in 1..Len(records) |->
        [row_idx |-> records[k].row_idx,
         values_str |-> [i \in 1..Len(records[k].values) |->
                            escape_sql_value(records[k].values[i])]]]

QueuedInsert ==
    [pc |-> "queued", existed |-> FALSE, process |-> Exits(0, <<>>, <<>>),
     result |-> Returned(0, <<>>), status |-> 0, error_msg |-> <<>>]

Prepare ==
    /\ pc = "prepare"
    /\ IF csv_records = <<>>
       THEN /\ pc' = "returned"
            /\ UNCHANGED <<inserts_to_execute, ins>>
       ELSE /\ inserts_to_execute' = inserts_of(csv_records)
            /\ ins' = [k \in 1..Len(csv_records) |-> QueuedInsert]
            /\ pc' = "insert"
    /\ UNCHANGED <<others, inputs, db, run, prev, ident, csv_records, total_csv_records, count,
                   cmp, csv_lock, skipped_count, skipped, inserted, failed_inserts,
                   issued, err_file>>

(***************************************************************************)
(* execute_single_insert(row_idx, values_str): task k sends its statement  *)
(* with client.execute_query(single_stmt), which passes no timeout.        *)
(***************************************************************************)
ExecInsert(k) ==
    /\ pc = "insert"
    /\ k \in DOMAIN ins
    /\ ins[k].pc = "queued"
    /\ LET stmt == inserts_to_execute[k]
           values == [i \in 1..Len(stmt.values_str) |->
                         sql_literal_value(stmt.values_str[i])]
       IN  \E process \in InsertProcesses(db, values, columns, create_sql.pk_section) :
              LET result == execute_query(NoTimeout, process)
                  r == IF result.blocked THEN [status |-> 0, error_msg |-> <<>>]
                       ELSE execute_single_insert(stmt.row_idx, result)
              IN  /\ db' = IF ~result.raised /\ ~result.blocked /\ result.returncode = 0
                           THEN Append(db, values) ELSE db
                  /\ ins' = [ins EXCEPT ![k] = [pc |-> IF result.blocked THEN "blocked"
                                                       ELSE "done",
                                                existed |-> \E n \in 1..Len(db) :
                                                                db[n] = values,
                                                process |-> process,
                                                result |-> result,
                                                status |-> r.status,
                                                error_msg |-> r.error_msg]]
                  /\ issued' = [issued EXCEPT ![stmt.row_idx] = @ + 1]
    /\ UNCHANGED <<others, inputs, run, prev, pc, ident, csv_records, total_csv_records, count,
                   cmp, csv_lock, skipped_count, skipped, inserted, failed_inserts,
                   inserts_to_execute, err_file>>

\* counters that leave an insert-time duplicate out of skipped
tally_without_skip(c, status, error_msg) ==
    [inserted |-> IF status = 1 THEN c.inserted + 1 ELSE c.inserted,
     skipped |-> c.skipped,
     failed_inserts |-> IF status \notin {0, 1} /\ error_msg # <<>>
                        THEN c.failed_inserts \o error_msg ELSE c.failed_inserts]

\* lines 313-320: the counters, under insert_lock
tally(c, status, error_msg) ==
    [inserted |-> IF status = 1 THEN c.inserted + 1 ELSE c.inserted,
     skipped |-> IF status = 0 THEN c.skipped + 1 ELSE c.skipped,
     failed_inserts |-> IF status \notin {0, 1} /\ error_msg # <<>>
                        THEN c.failed_inserts \o error_msg ELSE c.failed_inserts]

\* lines 311-312: the calling thread takes one finished future
CollectInsert(k) ==
    /\ pc = "insert"
    /\ k \in DOMAIN ins
    /\ ins[k].pc = "done"
    /\ LET c == tally([inserted |-> inserted, skipped |-> skipped,
                       failed_inserts |-> failed_inserts],
                      ins[k].status, ins[k].error_msg)
       IN  /\ inserted' = c.inserted
           /\ skipped' = c.skipped
           /\ failed_inserts' = c.failed_inserts
    /\ ins' = [ins EXCEPT ![k].pc = "collected"]
    /\ UNCHANGED <<others, inputs, db, run, prev, pc, ident, csv_records, total_csv_records, count,
                   cmp, csv_lock, skipped_count, inserts_to_execute, issued, err_file>>

\* a loop that stops at the first failed row
returns_at_first_failure(tasks) ==
    \/ \A k \in DOMAIN tasks : tasks[k].pc = "collected"
    \/ \E k \in DOMAIN tasks : tasks[k].pc = "collected" /\ tasks[k].status = -1

\* every task of the pool counts as taken
none_awaited(tasks) == TRUE

\* line 311: as_completed ends when every future was taken
all_completed(tasks) == \A k \in DOMAIN tasks : tasks[k].pc = "collected"

\* line 326: the first line of <table>.err
err_header == [row_idx |-> 0, text |-> <<"Errores al insertar en tabla">>]

\* an artifact written for every table
write_errors_always(file, failed) == <<err_header>> \o failed

\* lines 323-328: the artifact is opened only when a row failed
write_errors(file, failed) ==
    IF failed # <<>> THEN <<err_header>> \o failed ELSE file

\* lines 322-330: the error file, and the return
FinishInsert ==
    /\ pc = "insert"
    /\ all_completed(ins)
    /\ err_file' = write_errors(err_file, failed_inserts)
    /\ pc' = "returned"
    /\ UNCHANGED <<others, inputs, db, run, prev, ident, csv_records, total_csv_records, count,
                   cmp, csv_lock, skipped_count, skipped, inserted, failed_inserts,
                   inserts_to_execute, ins, issued>>

(***************************************************************************)
(* The import is run again on the same archive and the same target: the    *)
(* model follows a first invocation and the second one after it.           *)
(***************************************************************************)
Rerun ==
    /\ pc = "returned"
    /\ run = 1
    /\ inserted = total_csv_records
    /\ run' = run + 1
    /\ prev' = <<[inserted |-> inserted, skipped |-> skipped,
                  failed |-> Len(failed_inserts), total |-> total_csv_records]>>
    /\ pc' = "start"
    /\ ident' = [use_pk |-> FALSE, pk_indices |-> <<>>]
    /\ csv_records' = <<>>
    /\ total_csv_records' = 0
    /\ count' = CountNone
    /\ cmp' = <<>>
    /\ csv_lock' = 0
    /\ skipped_count' = 0
    /\ skipped' = 0
    /\ inserted' = 0
    /\ failed_inserts' = <<>>
    /\ inserts_to_execute' = <<>>
    /\ ins' = <<>>
    /\ issued' = [r \in 1..MaxCsvRows |-> 0]
    /\ UNCHANGED <<others, inputs, db, err_file>>

Next ==
    \/ LoadCsv
    \/ CountRecords
    \/ \E b \in 1..(MaxLiveRows + MaxCsvRows) :
          FetchBatch(b) \/ ScanKey(b) \/ RemoveKey(b) \/ CollectBatch(b)
    \/ FinishCompare
    \/ Prepare
    \/ \E k \in 1..MaxCsvRows : ExecInsert(k) \/ CollectInsert(k)
    \/ FinishInsert
    \/ Rerun

Spec == Init /\ [][Next]_vars

(***************************************************************************)
(* The calls of HanaClient on their own: count_table_records and           *)
(* get_table_records_paginated applied to whatever the client process may  *)
(* do, with any output of up to MaxStdoutLines lines.                      *)
(***************************************************************************)
MaxStdoutLines == 3

\* no table is being imported
TableIdle ==
    /\ create_sql = [columns |-> <<ID, N1>>, pk_section |-> <<>>]
    /\ csv_content = <<>>
    /\ db = <<>>
    /\ run = 1
    /\ prev = <<>>
    /\ Fresh

\* lines the client may print for SELECT COUNT(*)
CountLinePool ==
    { <<COUNT, "(", "*", ")">>,
      <<"2">>,
      <<SP, "1", "2", SP>>,
      <<"0">>,
      <<"x">>,
      <<>>,
      <<"1", SP, RS>> }

\* rows the client may print for a page of a table with columns ID, N
PageRowPool ==
    { <<ID, N1>>,
      << <<"1">>, <<"a">> >>,
      << <<"1">> >>,
      << <<"1">>, <<"b", SP, RS>> >>,
      <<>>,
      << <<"1", SP, RS>> >> }

ClientProcesses(outputs) ==
    {Exits(returncode, stdout, <<>>) : returncode \in {0, 1}, stdout \in outputs}
        \cup {NeverExits, CannotRun}

ClientInit ==
    /\ TableIdle
    /\ client_call = <<>>
    /\ main = <<>>
    /\ mon = <<>>
    /\ util_call = <<>>
    /\ pool = <<>>
    /\ sql_file = <<>>

CallCountTableRecords ==
    \E process \in ClientProcesses(SeqsUpTo(CountLinePool, MaxStdoutLines - 1)) :
        /\ client_call = <<>>
        /\ client_call' = [method |-> "count_table_records",
                           columns |-> <<>>,
                           process |-> process,
                           value |-> count_table_records(process)]
        /\ UNCHANGED <<table_vars, main, mon, util_call, pool, sql_file>>

CallGetTableRecordsPaginated ==
    \E cols \in {<<>>, <<ID, N1>>} :
      \E process \in ClientProcesses(SeqsUpTo(PageRowPool, MaxStdoutLines)) :
        /\ client_call = <<>>
        /\ client_call' = [method |-> "get_table_records_paginated",
                           columns |-> cols,
                           process |-> process,
                           value |-> get_table_records_paginated(cols, process)]
        /\ UNCHANGED <<table_vars, main, mon, util_call, pool, sql_file>>

ClientNext == CallCountTableRecords \/ CallGetTableRecordsPaginated

ClientSpec == ClientInit /\ [][ClientNext]_vars

(***************************************************************************)
(* main() of import_csv_to_hana.py, lines 400-503: the start-up checks,    *)
(* the loop over the sorted tables of the archive, each table imported by  *)
(* the actions above, and the summary.                                     *)
(***************************************************************************)
\* a start-up that goes on whatever the connection test says
test_connection_ignored(process) == TRUE

\* HanaClient.test_connection: SELECT 1 FROM DUMMY answered with exit code 0
test_connection(process) ==
    LET result == execute_query(connection_timeout, process)
    IN  ~result.raised /\ result.returncode = 0

ConnectionProcesses ==
    {Exits(0, <<<<"1">>>>, <<>>), Exits(1, <<>>, <<"authentication failed">>),
     NeverExits, CannotRun}

\* the tables an archive may hold, by path: create.sql, data.csv and the
\* live table each one meets
One == << <<"1">>, <<"a">> >>

Two == << <<"2">>, <<"b">> >>

TablePool ==
    << [has_create_sql |-> FALSE, has_csv |-> TRUE,
        create_sql |-> [columns |-> <<ID, N1>>, pk_section |-> <<>>],
        csv_content |-> <<One>>, live |-> <<>>],
       [has_create_sql |-> TRUE, has_csv |-> TRUE,
        create_sql |-> [columns |-> <<>>, pk_section |-> <<>>],
        csv_content |-> <<One>>, live |-> <<>>],
       [has_create_sql |-> TRUE, has_csv |-> TRUE,
        create_sql |-> [columns |-> <<ID, N1>>, pk_section |-> <<Q(ID)>>],
        csv_content |-> <<One, Two>>, live |-> <<One>>],
       [has_create_sql |-> TRUE, has_csv |-> TRUE,
        create_sql |-> [columns |-> <<ID, N1>>, pk_section |-> <<Q(ID)>>],
        csv_content |-> <<One>>, live |-> <<>>],
       [has_create_sql |-> TRUE, has_csv |-> FALSE,
        create_sql |-> [columns |-> <<ID, N1>>, pk_section |-> <<>>],
        csv_content |-> <<>>, live |-> <<>>] >>

\* get_csv_files: the data.csv paths of the archive, in the archive's order
CsvFilesPool ==
    {files \in SeqsUpTo(1..Len(TablePool), Len(TablePool)) :
        \A i, j \in 1..Len(files) : i # j => files[i] # files[j]}

RECURSIVE sorted(_)
sorted(files) ==
    IF files = <<>> THEN <<>>
    ELSE LET least == Min({files[i] : i \in 1..Len(files)})
         IN  <<least>> \o sorted(SelectSeq(files, LAMBDA path : path # least))

MainStart ==
    [pc |-> "start", connection |-> <<>>, csv_files |-> <<>>, idx |-> 0,
     success_count |-> 0, error_count |-> 0, total_inserted |-> 0,
     total_skipped |-> 0, total_errors |-> 0, reports |-> <<>>,
     summary |-> <<>>, exit_code |-> 0]

\* sys.exit(code)
sys_exit(m, code) == [m EXCEPT !.pc = "exited", !.exit_code = code]

MainInit ==
    /\ TableIdle
    /\ client_call = <<>>
    /\ mon = <<>>
    /\ util_call = <<>>
    /\ pool = <<>>
    /\ sql_file = <<>>
    /\ main = MainStart

\* lines 415-423: the archive and the schema name
CheckArchive ==
    /\ main.pc = "start"
    /\ \E tar_exists \in BOOLEAN, schema_name \in BOOLEAN :
          main' = IF ~tar_exists \/ ~schema_name THEN sys_exit(main, 1)
                  ELSE [main EXCEPT !.pc = "connect"]
    /\ UNCHANGED <<table_vars, client_call, mon, util_call, pool, sql_file>>

\* lines 428-438: the client is built and the connection tried
Connect ==
    /\ main.pc = "connect"
    /\ \E constructed \in BOOLEAN, process \in ConnectionProcesses :
          LET tried == [main EXCEPT !.connection =
                                       <<[constructed |-> constructed, process |-> process]>>]
          IN  main' = IF ~constructed THEN sys_exit(tried, 1)
                      ELSE IF ~test_connection(process) THEN sys_exit(tried, 1)
                      ELSE [tried EXCEPT !.pc = "files"]
    /\ UNCHANGED <<table_vars, client_call, mon, util_call, pool, sql_file>>

\* lines 441-454: the CSV files of the archive
GetCsvFiles ==
    /\ main.pc = "files"
    /\ \E csv_files \in CsvFilesPool :
          main' = IF csv_files = <<>> THEN sys_exit(main, 1)
                  ELSE [main EXCEPT !.csv_files = sorted(csv_files), !.idx = 1, !.pc = "loop"]
    /\ UNCHANGED <<table_vars, client_call, mon, util_call, pool, sql_file>>

\* a loop that ends at the first table that is not a success
stop_at_failed_table(idx, success, n) == IF success THEN idx + 1 ELSE n + 1

\* line 456: enumerate(sorted(csv_files), 1) goes on to the next table
next_table(idx, success, n) == idx + 1

\* lines 463-484: the line of the table and the totals
report(m, success, n_inserted, n_skipped, errors) ==
    LET idx == next_table(m.idx, success, Len(m.csv_files))
    IN  [m EXCEPT !.success_count = IF success THEN @ + 1 ELSE @,
                  !.error_count = IF success THEN @ ELSE @ + 1,
                  !.total_inserted = @ + n_inserted,
                  !.total_skipped = @ + n_skipped,
                  !.total_errors = @ + errors,
                  !.reports = @ \o <<[table_path |-> m.csv_files[m.idx],
                                      success |-> success, inserted |-> n_inserted,
                                      skipped |-> n_skipped, errors |-> errors]>>,
                  !.idx = idx,
                  !.pc = IF idx > Len(m.csv_files) THEN "summary" ELSE "loop"]

table_path == TablePool[main.csv_files[main.idx]]

\* a table that is imported although its DDL yields no column
readable_without_columns(t) == t.has_create_sql /\ t.has_csv

\* process_table, lines 345-364: create.sql was read, it yields columns,
\* and the CSV was read
readable(t) == t.has_create_sql /\ t.create_sql.columns # <<>> /\ t.has_csv

\* process_table, lines 345-364: no create.sql, no columns or no CSV,
\* (False, 0, 0, 0)
ProcessTableWithoutFiles ==
    /\ main.pc = "loop"
    /\ ~readable(table_path)
    /\ main' = report(main, FALSE, 0, 0, 0)
    /\ UNCHANGED <<table_vars, client_call, mon, util_call, pool, sql_file>>

\* process_table, line 366: generate_and_execute_inserts is called
ProcessTable ==
    /\ main.pc = "loop"
    /\ readable(table_path)
    /\ main' = [main EXCEPT !.pc = "table"]
    /\ create_sql' = table_path.create_sql
    /\ csv_content' = table_path.csv_content
    /\ db' = table_path.live
    /\ run' = 1
    /\ prev' = <<>>
    /\ pc' = "start"
    /\ ident' = [use_pk |-> FALSE, pk_indices |-> <<>>]
    /\ csv_records' = <<>>
    /\ total_csv_records' = 0
    /\ count' = CountNone
    /\ cmp' = <<>>
    /\ csv_lock' = 0
    /\ skipped_count' = 0
    /\ skipped' = 0
    /\ inserted' = 0
    /\ failed_inserts' = <<>>
    /\ inserts_to_execute' = <<>>
    /\ ins' = <<>>
    /\ issued' = [r \in 1..MaxCsvRows |-> 0]
    /\ err_file' = <<>>
    /\ UNCHANGED <<client_call, mon, util_call, pool, sql_file>>

\* generate_and_execute_inserts at work for the table
ImportTable ==
    /\ main.pc = "table"
    /\ \/ LoadCsv
       \/ CountRecords
       \/ \E b \in 1..(MaxLiveRows + MaxCsvRows) :
             FetchBatch(b) \/ ScanKey(b) \/ RemoveKey(b) \/ CollectBatch(b)
       \/ FinishCompare
       \/ Prepare
       \/ \E k \in 1..MaxCsvRows : ExecInsert(k) \/ CollectInsert(k)
       \/ FinishInsert

\* process_table, lines 370-371, and main, lines 463-484
TableReturned ==
    /\ main.pc = "table"
    /\ pc = "returned"
    /\ main' = report(main, Len(failed_inserts) = 0, inserted, skipped, Len(failed_inserts))
    /\ UNCHANGED <<table_vars, client_call, mon, util_call, pool, sql_file>>

\* lines 486-503: the summary; the function ends and so does the process
Summary ==
    /\ main.pc = "summary"
    /\ main' = [main EXCEPT !.summary = <<[tables |-> Len(main.csv_files),
                                           success_count |-> main.success_count,
                                           error_count |-> main.error_count,
                                           total_inserted |-> main.total_inserted,
                                           total_skipped |-> main.total_skipped,
                                           total_errors |-> main.total_errors]>>,
                            !.pc = "exited", !.exit_code = 0]
    /\ UNCHANGED <<table_vars, client_call, mon, util_call, pool, sql_file>>

MainNext ==
    \/ CheckArchive
    \/ Connect
    \/ GetCsvFiles
    \/ ProcessTableWithoutFiles
    \/ ProcessTable
    \/ ImportTable
    \/ TableReturned
    \/ Summary

MainSpec == MainInit /\ [][MainNext]_vars

(***************************************************************************)
(* ProgressMonitor of sql_progress.py: the thread of _monitor_loop polls   *)
(* the row count of the table while rows are inserted; stop() signals the  *)
(* thread, waits for it for at most two seconds and samples once more.     *)
(***************************************************************************)
MaxSamples == 2

\* lines 27 and 29: min(100, inserted / total_inserts * 100) as {:.1f} shows
\* it, in tenths of a percent
percent_of(n_inserted, total_inserts) ==
    LET tenths == (2000 * n_inserted + total_inserts) \div (2 * total_inserts)
    IN  IF tenths > 1000 THEN 1000 ELSE tenths

\* format_progress: what the line shows
format_progress(current_count, initial_count, total_inserts) ==
    IF total_inserts = 0 THEN [registros |-> current_count, total |-> 0]
    ELSE [registros |-> current_count - initial_count, total |-> total_inserts,
          percent |-> percent_of(current_count - initial_count, total_inserts)]

\* __init__, lines 35-53
ProgressMonitor(table_name, initial_count, total_inserts) ==
    [pc |-> "new", table_name |-> table_name, initial_count |-> initial_count,
     total_inserts |-> total_inserts, stop_event |-> FALSE, thread |-> FALSE,
     last_count |-> initial_count, loop |-> "none", call_after_stop |-> FALSE,
     table_count |-> initial_count, out |-> <<>>, polled |-> 0,
     samples_after_stop |-> 0, renders_after_stop |-> 0]

ProgressInit ==
    /\ TableIdle
    /\ client_call = <<>>
    /\ main = <<>>
    /\ util_call = <<>>
    /\ pool = <<>>
    /\ sql_file = <<>>
    /\ mon \in {ProgressMonitor(table_name, initial_count, total_inserts) :
                   table_name \in {<<>>, <<"T">>},
                   initial_count \in 0..MaxLiveRows,
                   total_inserts \in {0, MaxCsvRows}}

\* start, lines 55-71
MonitorStart ==
    /\ mon.pc = "new"
    /\ mon' = IF mon.table_name # <<>>
              THEN [mon EXCEPT !.pc = "running", !.thread = TRUE, !.loop = "check",
                               !.out = <<format_progress(mon.initial_count, mon.initial_count,
                                                         mon.total_inserts)>>]
              ELSE [mon EXCEPT !.pc = "running"]
    /\ UNCHANGED <<table_vars, client_call, main, util_call, pool, sql_file>>

\* the inserts the monitor watches: one more row is in the table
RowInserted ==
    /\ mon.pc \in {"running", "join", "final"}
    /\ mon.table_count < mon.initial_count + mon.total_inserts
    /\ mon' = [mon EXCEPT !.table_count = @ + 1]
    /\ UNCHANGED <<table_vars, client_call, main, util_call, pool, sql_file>>

\* _monitor_loop, line 104: while not self.stop_event.is_set()
LoopTest ==
    /\ mon.loop = "check"
    /\ mon' = [mon EXCEPT !.loop = IF mon.stop_event THEN "ended" ELSE "call"]
    /\ UNCHANGED <<table_vars, client_call, main, util_call, pool, sql_file>>

\* lines 106-109: the count statement is sent
LoopCall ==
    /\ mon.loop = "call"
    /\ mon.polled < MaxSamples
    /\ mon' = [mon EXCEPT !.loop = "sampling", !.polled = @ + 1,
                          !.call_after_stop = mon.stop_event,
                          !.samples_after_stop = IF mon.stop_event THEN @ + 1 ELSE @]
    /\ UNCHANGED <<table_vars, client_call, main, util_call, pool, sql_file>>

\* lines 106-118: the count arrives, the line is redrawn when it changed;
\* lines 121-124: an exception in the body is swallowed
LoopSample ==
    /\ mon.loop = "sampling"
    /\ \E process \in CountProcesses(mon.table_count), raises \in BOOLEAN :
          LET current_count == count_table_records(process)
          IN  mon' = IF raises THEN [mon EXCEPT !.loop = "wait_error"]
                     ELSE IF current_count # CountNone /\ current_count # mon.last_count
                     THEN [mon EXCEPT !.loop = "wait",
                                      !.last_count = current_count,
                                      !.out = @ \o <<format_progress(current_count,
                                                         mon.initial_count, mon.total_inserts)>>,
                                      !.renders_after_stop = IF mon.stop_event THEN @ + 1 ELSE @]
                     ELSE [mon EXCEPT !.loop = "wait"]
    /\ UNCHANGED <<table_vars, client_call, main, util_call, pool, sql_file>>

\* lines 120 and 123: stop_event.wait(timeout) answers True when the event
\* is set and the loop breaks, False when the interval has passed
LoopWait ==
    /\ mon.loop \in {"wait", "wait_error"}
    /\ mon' = [mon EXCEPT !.loop = IF mon.stop_event THEN "ended" ELSE "check"]
    /\ UNCHANGED <<table_vars, client_call, main, util_call, pool, sql_file>>

\* stop, lines 75-76: nothing without a thread, else the event is set
MonitorStop ==
    /\ mon.pc = "running"
    /\ mon' = IF mon.thread THEN [mon EXCEPT !.pc = "join", !.stop_event = TRUE]
              ELSE [mon EXCEPT !.pc = "stopped"]
    /\ UNCHANGED <<table_vars, client_call, main, util_call, pool, sql_file>>

\* line 77: join(timeout=2) comes back when the thread has ended or when
\* two seconds have passed with the thread still in a count of up to 60 s
Join ==
    /\ mon.pc = "join"
    /\ mon.loop = "ended" \/ mon.loop = "sampling"
    /\ mon' = [mon EXCEPT !.pc = "final"]
    /\ UNCHANGED <<table_vars, client_call, main, util_call, pool, sql_file>>

\* lines 80-97: the final count, drawn when it is not None
FinalSample ==
    /\ mon.pc = "final"
    /\ \E process \in CountProcesses(mon.table_count) :
          LET final_count == count_table_records(process)
              sampled == [mon EXCEPT !.pc = "stopped", !.samples_after_stop = @ + 1]
          IN  mon' = IF final_count # CountNone
                     THEN [sampled EXCEPT !.out = @ \o <<format_progress(final_count,
                                                        mon.initial_count, mon.total_inserts)>>,
                                          !.renders_after_stop = @ + 1]
                     ELSE sampled
    /\ UNCHANGED <<table_vars, client_call, main, util_call, pool, sql_file>>

ProgressNext ==
    \/ MonitorStart
    \/ RowInserted
    \/ LoopTest
    \/ LoopCall
    \/ LoopSample
    \/ LoopWait
    \/ MonitorStop
    \/ Join
    \/ FinalSample

ProgressSpec == ProgressInit /\ [][ProgressNext]_vars

(***************************************************************************)
(* The schema name: load_config of hana_connection.py builds the           *)
(* configuration, get_schema_name of utils.py picks the name.              *)
(***************************************************************************)
MaxCount == 3

\* Python's None where a string may stand
None == "None"

\* bool(value) of a string or None
truthy(value) == value # None /\ value # ""

\* values a source of the schema name may hold
SchemaValues(name) == {None, "", name}

\* hana_config.conf as read at lines 37-45: is there a file, has it a SCHEMA
\* line, and the value of the line
ConfigFiles ==
    {[exists |-> FALSE, has_SCHEMA |-> FALSE, SCHEMA |-> None]}
        \cup {[exists |-> TRUE, has_SCHEMA |-> FALSE, SCHEMA |-> None]}
        \cup {[exists |-> TRUE, has_SCHEMA |-> TRUE, SCHEMA |-> value] :
                 value \in {"", "CONF"}}

\* load_config: without a file the five connection variables of the
\* environment are the configuration (lines 46-58); with a file every
\* optional key it lacks is added with the value of the environment, or
\* None (lines 78-95)
load_config(config_file, env_SCHEMA) ==
    IF ~config_file.exists THEN [has_SCHEMA |-> FALSE, SCHEMA |-> None]
    ELSE IF config_file.has_SCHEMA
         THEN [has_SCHEMA |-> TRUE, SCHEMA |-> config_file.SCHEMA]
         ELSE [has_SCHEMA |-> TRUE, SCHEMA |-> env_SCHEMA]

\* get_schema_name, lines 74-95
get_schema_name(env_SCHEMA, config, tar_exists, from_tar, from_extracted) ==
    IF truthy(env_SCHEMA) THEN env_SCHEMA
    ELSE IF config.has_SCHEMA THEN config.SCHEMA
    ELSE IF tar_exists /\ truthy(from_tar) THEN from_tar
    ELSE IF truthy(from_extracted) THEN from_extracted
    ELSE None

UtilInit ==
    /\ TableIdle
    /\ client_call = <<>>
    /\ main = <<>>
    /\ mon = <<>>
    /\ util_call = <<>>
    /\ pool = <<>>
    /\ sql_file = <<>>

\* main, lines 402 and 420: the configuration is loaded and the schema
\* name asked for
CallGetSchemaName ==
    /\ util_call = <<>>
    /\ \E env_SCHEMA \in SchemaValues("ENV"), config_file \in ConfigFiles,
          tar_exists \in BOOLEAN, from_tar \in {None, "TAR"},
          from_extracted \in {None, "DIR"} :
          util_call' = [function |-> "get_schema_name",
                        env_SCHEMA |-> env_SCHEMA,
                        config_file |-> config_file,
                        tar_exists |-> tar_exists,
                        from_tar |-> from_tar,
                        from_extracted |-> from_extracted,
                        value |-> get_schema_name(env_SCHEMA,
                                      load_config(config_file, env_SCHEMA),
                                      tar_exists, from_tar, from_extracted)]
    /\ UNCHANGED <<table_vars, client_call, main, mon, pool, sql_file>>

\* format_progress called with any counts
CallFormatProgress ==
    /\ util_call = <<>>
    /\ \E current_count \in 0..MaxCount, initial_count \in 0..MaxCount,
          total_inserts \in 0..MaxCount :
          util_call' = [function |-> "format_progress",
                        current_count |-> current_count,
                        initial_count |-> initial_count,
                        total_inserts |-> total_inserts,
                        value |-> format_progress(current_count, initial_count,
                                                  total_inserts)]
    /\ UNCHANGED <<table_vars, client_call, main, mon, pool, sql_file>>

UtilNext == CallGetSchemaName \/ CallFormatProgress

UtilSpec == UtilInit /\ [][UtilNext]_vars

(***************************************************************************)
(* The two worker pools of generate_and_execute_inserts: one task per page *)
(* is submitted to ThreadPoolExecutor(max_workers=comparison_threads), one *)
(* task per pending row to ThreadPoolExecutor(max_workers=max_workers).    *)
(* A worker takes the oldest queued task; a pool never has more workers    *)
(* than max_workers.                                                       *)
(***************************************************************************)
MaxTasks == 11

\* line 233
comparison_threads == 5

\* line 302
max_workers == 10

in_flight(tasks) == Cardinality({k \in 1..Len(tasks) : tasks[k] = "running"})

\* a pool that starts a thread for every task
no_worker_limit(running, workers) == TRUE

\* ThreadPoolExecutor: a task starts when fewer than max_workers are running
has_idle_worker(running, workers) == running < workers

PoolInit ==
    /\ TableIdle
    /\ client_call = <<>>
    /\ main = <<>>
    /\ mon = <<>>
    /\ util_call = <<>>
    /\ sql_file = <<>>
    /\ pool = <<>>

\* lines 235-241 and 303-308: the pool is made and every task submitted
SubmitAll ==
    /\ pool = <<>>
    /\ \E phase \in {"compare", "insert"}, n \in 0..MaxTasks :
          pool' = [phase |-> phase,
                   workers |-> IF phase = "compare" THEN comparison_threads
                               ELSE max_workers,
                   tasks |-> [k \in 1..n |-> "queued"]]
    /\ UNCHANGED <<table_vars, client_call, main, mon, util_call, sql_file>>

\* a worker takes the oldest task of the queue
WorkerTakesTask ==
    /\ pool # <<>>
    /\ \E k \in 1..Len(pool.tasks) :
          /\ pool.tasks[k] = "queued"
          /\ \A j \in 1..(k - 1) : pool.tasks[j] # "queued"
          /\ has_idle_worker(in_flight(pool.tasks), pool.workers)
          /\ pool' = [pool EXCEPT !.tasks[k] = "running"]
    /\ UNCHANGED <<table_vars, client_call, main, mon, util_call, sql_file>>

\* compare_batch or execute_single_insert returns
TaskReturns ==
    /\ pool # <<>>
    /\ \E k \in 1..Len(pool.tasks) :
          /\ pool.tasks[k] = "running"
          /\ pool' = [pool EXCEPT !.tasks[k] = "done"]
    /\ UNCHANGED <<table_vars, client_call, main, mon, util_call, sql_file>>

PoolNext == SubmitAll \/ WorkerTakesTask \/ TaskReturns

PoolSpec == PoolInit /\ [][PoolNext]_vars

(***************************************************************************)
(* execute_sql.py: the files of a run, one after another, each executed by *)
(* the client while a progress thread polls the table's count.             *)
(***************************************************************************)
MaxFiles == 2

MaxRecords == 2

SqlFileInit ==
    /\ TableIdle
    /\ client_call = <<>>
    /\ main = <<>>
    /\ mon = <<>>
    /\ util_call = <<>>
    /\ pool = <<>>
    /\ sql_file = [pc |-> "idle", table_count |-> 0, has_timeout |-> FALSE,
                   executed |-> 0, threads |-> <<>>, results |-> <<>>,
                   out |-> <<>>]

\* the thread record of the file being executed
current_file == Len(sql_file.threads)

\* main's loop calls execute_sql_file: the statements and the records are
\* counted, a new event is made and the thread started when both are known
ExecuteSqlFile ==
    /\ sql_file.pc = "idle"
    /\ Len(sql_file.threads) < MaxFiles
    /\ \E n_inserts \in 0..MaxRecords, count_answers \in BOOLEAN,
          timeout_set \in BOOLEAN :
          LET records_before == IF count_answers THEN sql_file.table_count
                                ELSE CountNone
              progress_thread == records_before # CountNone /\ n_inserts > 0
          IN  sql_file' =
                [sql_file EXCEPT
                   !.pc = "run",
                   !.has_timeout = timeout_set,
                   !.executed = 0,
                   !.threads = Append(@,
                      [progress_thread |-> progress_thread,
                       stop_event |-> FALSE,
                       loop |-> IF progress_thread THEN "test" ELSE "none",
                       initial_count |-> records_before,
                       total_inserts |-> n_inserts,
                       last_inserted |-> 0])]
    /\ UNCHANGED <<table_vars, client_call, main, mon, util_call, pool>>

\* the client, inside subprocess.run, executes one INSERT of the file
ClientInserts ==
    /\ sql_file.pc = "run"
    /\ sql_file.executed < sql_file.threads[current_file].total_inserts
    /\ sql_file.table_count < MaxRecords
    /\ sql_file' = [sql_file EXCEPT !.executed = @ + 1,
                                    !.table_count = @ + 1]
    /\ UNCHANGED <<table_vars, client_call, main, mon, util_call, pool>>

\* subprocess.run returns: a started thread is told to stop and joined
ClientReturns ==
    /\ sql_file.pc = "run"
    /\ \E returncode \in {0, 1} :
          sql_file' =
            [sql_file EXCEPT
               !.pc = IF returncode = 0 THEN "join_ok" ELSE "join_error",
               !.threads[current_file].stop_event =
                   IF sql_file.threads[current_file].progress_thread
                   THEN TRUE ELSE @]
    /\ UNCHANGED <<table_vars, client_call, main, mon, util_call, pool>>

\* join(timeout=2) returns, the thread ended or not; the result is returned
JoinReturns ==
    /\ sql_file.pc \in {"join_ok", "join_error"}
    /\ sql_file' =
         [sql_file EXCEPT
            !.pc = "idle",
            !.results = Append(@, IF sql_file.pc = "join_ok" THEN "success"
                                  ELSE "hdbsql error")]
    /\ UNCHANGED <<table_vars, client_call, main, mon, util_call, pool>>

\* subprocess.run raises TimeoutExpired after SQL_TIMEOUT seconds
ClientTimesOut ==
    /\ sql_file.pc = "run"
    /\ sql_file.has_timeout
    /\ sql_file' = [sql_file EXCEPT
                      !.pc = "idle",
                      !.results = Append(@, "Timeout ejecutando hdbsql")]
    /\ UNCHANGED <<table_vars, client_call, main, mon, util_call, pool>>

\* subprocess.run raises another exception
ClientRaises ==
    /\ sql_file.pc = "run"
    /\ sql_file' = [sql_file EXCEPT
                      !.pc = "idle",
                      !.results = Append(@, "Error ejecutando hdbsql")]
    /\ UNCHANGED <<table_vars, client_call, main, mon, util_call, pool>>

\* monitor_progress: the test of the while loop
ProgressTest ==
    /\ \E i \in 1..Len(sql_file.threads) :
          /\ sql_file.threads[i].loop = "test"
          /\ sql_file' = [sql_file EXCEPT !.threads[i].loop =
                            IF sql_file.threads[i].stop_event THEN "ended"
                            ELSE "count"]
    /\ UNCHANGED <<table_vars, client_call, main, mon, util_call, pool>>

\* monitor_progress: one pass of the loop body, a count and perhaps a bar
ProgressPoll ==
    /\ \E i \in 1..Len(sql_file.threads) :
          /\ sql_file.threads[i].loop = "count"
          /\ \E current_count \in {CountNone, sql_file.table_count} :
                LET t == sql_file.threads[i]
                    now_inserted == current_count - t.initial_count
                    shown == /\ current_count # CountNone
                             /\ now_inserted # t.last_inserted
                             /\ now_inserted >= 0
                IN  sql_file' =
                      [sql_file EXCEPT
                         !.threads[i].loop = "test",
                         !.threads[i].last_inserted =
                             IF shown THEN now_inserted ELSE @,
                         !.out = IF shown
                                 THEN Append(@, [thread |-> i,
                                                 during |-> current_file,
                                                 running |-> sql_file.pc = "run",
                                                 current |-> now_inserted])
                                 ELSE @]
    /\ UNCHANGED <<table_vars, client_call, main, mon, util_call, pool>>

SqlFileNext ==
    \/ ExecuteSqlFile
    \/ ClientInserts
    \/ ClientReturns
    \/ JoinReturns
    \/ ClientTimesOut
    \/ ClientRaises
    \/ ProgressTest
    \/ ProgressPoll

SqlFileSpec == SqlFileInit /\ [][SqlFileNext]_vars

(***************************************************************************)
(* Notions the properties use.                                             *)
(***************************************************************************)
\* csv_records as keyed from the CSV, before any page was compared
loaded == read_csv(csv_content, 1, Len(columns), ident, <<>>)

\* the compare phase has just ended and did run (the live count was positive);
\* csv_records is not written after it
Reconciled == pc = "prepare" /\ cmp # <<>>

row_is_pending(r) == \E e \in 1..Len(csv_records) : csv_records[e].row_idx = r

\* reconciliation by one thread, page after page, key after key
RECURSIVE reconcile_keys(_, _)
reconcile_keys(st, keys) ==
    IF keys = <<>> THEN st
    ELSE reconcile_keys(
             IF dict_has(st.records, Head(keys))
             THEN [records |-> dict_del(st.records, Head(keys)), skipped |-> st.skipped + 1]
             ELSE st,
             Tail(keys))

RECURSIVE reconcile_pages(_, _)
reconcile_pages(st, pages) ==
    IF pages = <<>> THEN st
    ELSE reconcile_pages(reconcile_keys(st, Head(pages)), Tail(pages))

single_threaded ==
    reconcile_pages([records |-> loaded, skipped |-> 0],
                    [b \in 1..Len(cmp) |-> cmp[b].hana_normalized])

(***************************************************************************)
(* C1, as stated: when generate_and_execute_inserts has returned, exactly  *)
(* one INSERT was sent for every row left pending by reconciliation and    *)
(* none for any other row, and inserted + skipped + failed is the number   *)
(* of pending rows.                                                        *)
(***************************************************************************)
C1_SumIsPendingRows ==
    pc = "returned" =>
        /\ \A r \in 1..MaxCsvRows : issued[r] = IF row_is_pending(r) THEN 1 ELSE 0
        /\ inserted + skipped + Len(failed_inserts) = Len(csv_records)

(***************************************************************************)
(* C1, amended: when generate_and_execute_inserts has returned, exactly    *)
(* one INSERT was sent for every row left pending by reconciliation and    *)
(* none for any other row, and inserted + skipped + failed is the number   *)
(* of pending rows plus the number of rows reconciliation removed as       *)
(* duplicates, which the returned skipped count includes.                  *)
(***************************************************************************)
C1_Completeness ==
    pc = "returned" =>
        /\ \A r \in 1..MaxCsvRows : issued[r] = IF row_is_pending(r) THEN 1 ELSE 0
        /\ inserted + skipped + Len(failed_inserts) = Len(csv_records) + skipped_count

\* reconciliation removed a duplicate and an INSERT was sent for a row left
C1_Witness ==
    /\ pc = "returned"
    /\ skipped_count > 0
    /\ \E r \in 1..MaxCsvRows : issued[r] = 1 /\ row_is_pending(r)
    /\ inserted + Len(failed_inserts) > 0

(***************************************************************************)
(* C2: once every compare_batch task has finished, whatever their          *)
(* interleaving, the pending map and the duplicate count are those of a    *)
(* single-threaded reconciliation over the same pages.                     *)
(***************************************************************************)
C2_MatchesSingleThreaded ==
    Reconciled =>
        /\ csv_records = single_threaded.records
        /\ skipped_count = single_threaded.skipped

\* two pages held the same key of the CSV, and it was removed
C2_Witness ==
    /\ Reconciled
    /\ \E a, b \in 1..Len(cmp) :
          /\ a # b
          /\ \E i \in 1..Len(cmp[a].hana_normalized), j \in 1..Len(cmp[b].hana_normalized) :
                /\ cmp[a].hana_normalized[i] = cmp[b].hana_normalized[j]
                /\ dict_has(loaded, cmp[a].hana_normalized[i])
    /\ skipped_count >= 1

(***************************************************************************)
(* The identity the specification gives a live row: its raw values keyed   *)
(* the way the CSV side keys a row.                                        *)
(***************************************************************************)
page_of(b) == select_page(db, (b - 1) * batch_size, batch_size)

\* the rows of a page that the parser keeps
kept_rows(page) == SelectSeq(page, LAMBDA row : ~has_rows_selected(row))

live_keys == {csv_key(db[r], ident) : r \in 1..Len(db)}

all_pages_fetched == \A b \in 1..Len(cmp) : cmp[b].pc # "queued" /\ cmp[b].fetched

declared_positions ==
    {i \in 1..Len(columns) : in_list(columns[i], declared_pk(create_sql.pk_section))}

(***************************************************************************)
(* C3: when the live count is positive and every page fetch succeeds,      *)
(* reconciliation leaves pending exactly the CSV keys that match no live   *)
(* row under the active identity, and the duplicate count is the number of *)
(* CSV keys that match one.                                                *)
(***************************************************************************)
C3_PendingIsUnmatched ==
    (pc = "prepare" /\ cmp # <<>> /\ all_pages_fetched) =>
        /\ dict_keys(csv_records) = dict_keys(loaded) \ live_keys
        /\ skipped_count = Cardinality(dict_keys(loaded) \cap live_keys)

(***************************************************************************)
(* C4: a second run on the same CSV, after a first run that inserted every *)
(* row, inserts nothing.  Stated for a target that answers the count and   *)
(* every page fetch of the second run.                                     *)
(***************************************************************************)
C4_SecondRunInsertsNothing ==
    (run = 2 /\ pc = "returned" /\ count # CountNone /\ all_pages_fetched) =>
        inserted = 0

(***************************************************************************)
(* C5: the key compare_batch builds for a live row is the key the CSV side *)
(* builds from the same raw values, in primary-key and in full-row mode.   *)
(***************************************************************************)
C5_SameKeyOnBothSides ==
    pc = "compare" =>
        \A b \in 1..Len(cmp) :
            cmp[b].hana_normalized # <<>> =>
                \A i \in 1..Len(cmp[b].hana_normalized) :
                    cmp[b].hana_normalized[i] = csv_key(kept_rows(page_of(b))[i], ident)

(***************************************************************************)
(* C6: with primary-key identity, a CSV row whose declared primary-key     *)
(* values equal, after normalization, those of a fetched live row is not   *)
(* pending when reconciliation ends, whatever its other values.            *)
(***************************************************************************)
C6_EqualPrimaryKeyIsDuplicate ==
    (pc = "prepare" /\ cmp # <<>> /\ ident.use_pk) =>
        \A b \in 1..Len(cmp) :
            cmp[b].fetched =>
                \A i \in 1..Len(kept_rows(page_of(b))), e \in 1..Len(loaded) :
                    (\A p \in declared_positions :
                        normalize_value(loaded[e].values[p])
                            = normalize_value(kept_rows(page_of(b))[i][p]))
                    => ~dict_has(csv_records, loaded[e].key)

(***************************************************************************)
(* C7: when the primary-key list extracted from the DDL holds a name that  *)
(* is not a parsed column, the CSV rows and the live rows are all keyed on *)
(* the full row.                                                           *)
(***************************************************************************)
pk_name_missing ==
    LET pk_columns == extract_primary_key_from_create_sql(create_sql.pk_section)
    IN  \E n \in 1..Len(pk_columns) : ~in_list(pk_columns[n], columns)

C7_FallbackIsFullRow ==
    (pc # "start" /\ pk_name_missing) =>
        /\ ~ident.use_pk
        /\ \A e \in 1..Len(csv_records) :
              csv_records[e].key = [k \in 1..Len(columns) |->
                                       normalize_value(csv_records[e].values[k])]
        /\ \A b \in 1..Len(cmp) :
              \A i \in 1..Len(cmp[b].hana_normalized) :
                  /\ Len(cmp[b].hana_normalized[i]) = Len(columns)
                  /\ cmp[b].hana_normalized[i] = cmp[b].hana_batch[i]

C7_Witness ==
    /\ pc = "prepare"
    /\ pk_name_missing
    /\ csv_records # <<>>
    /\ \E b \in 1..Len(cmp) : cmp[b].hana_normalized # <<>>

(***************************************************************************)
(* C8: whenever primary-key identity is active, the key covers every       *)
(* column the PRIMARY KEY clause names, so two CSV rows that differ in a   *)
(* declared primary-key column never share a key.                          *)
(***************************************************************************)
C8_KeyCoversDeclaredPk ==
    (pc # "start" /\ ident.use_pk) =>
        /\ \A p \in declared_positions :
              \E k \in 1..Len(ident.pk_indices) : ident.pk_indices[k] = p
        /\ \A i, j \in 1..Len(csv_content) :
              LET vi == pad_row(csv_content[i], Len(columns))
                  vj == pad_row(csv_content[j], Len(columns))
              IN  (/\ csv_content[i] # <<>>
                   /\ csv_content[j] # <<>>
                   /\ \E p \in declared_positions :
                         normalize_value(vi[p]) # normalize_value(vj[p]))
                  => csv_key(vi, ident) # csv_key(vj, ident)

(***************************************************************************)
(* C9: every insert attempt has exactly one outcome: exit code zero is     *)
(* inserted; a non-zero exit code with "unique constraint" or "duplicate"  *)
(* in the error text, in any case, is skipped and never failed; a non-zero *)
(* exit code with any other text is failed, with one message that carries  *)
(* the row ordinal.  The counters count each attempt once.                 *)
(***************************************************************************)
has_duplicate_signature(text) ==
    \E i \in 1..Len(text) : text[i] \in {UC, Uc, DUP, Dup}

attempts_with(status) ==
    Cardinality({k \in 1..Len(ins) : ins[k].pc = "collected" /\ ins[k].status = status})

C9_OneOutcomePerAttempt ==
    /\ \A k \in 1..Len(ins) :
          ins[k].pc \in {"done", "collected"} =>
              LET r == ins[k].result
              IN  /\ ins[k].status \in {1, 0, -1}
                  /\ (~r.raised /\ r.returncode = 0) => ins[k].status = 1
                  /\ (~r.raised /\ r.returncode # 0 /\ has_duplicate_signature(r.stderr))
                        => ins[k].status = 0
                  /\ (~r.raised /\ r.returncode # 0 /\ ~has_duplicate_signature(r.stderr))
                        => /\ ins[k].status = -1
                           /\ Len(ins[k].error_msg) = 1
                           /\ ins[k].error_msg[1].row_idx = inserts_to_execute[k].row_idx
    /\ pc \in {"insert", "returned"} =>
          /\ inserted = attempts_with(1)
          /\ skipped = skipped_count + attempts_with(0)
          /\ Len(failed_inserts) = attempts_with(-1)

C9_Witness ==
    /\ pc = "returned"
    /\ \E k \in 1..Len(ins) : ins[k].status = 0 /\ contains(ins[k].result.stderr, Dup)
    /\ \E k \in 1..Len(ins) : ins[k].status = -1 /\ ~ins[k].result.raised

(***************************************************************************)
(* C10: a row whose insert failed, by a hard error or a raised client      *)
(* exception, does not keep any other pending row from being attempted:    *)
(* while such a row is still waiting its statement can be sent, and the    *)
(* function does not return before every pending row was attempted once.  *)
(***************************************************************************)
C10_NoFailFast ==
    /\ \A k, j \in 1..Len(ins) :
          (ins[k].pc # "queued" /\ ins[k].status = -1 /\ ins[j].pc = "queued")
              => pc = "insert"
    /\ pc = "returned" =>
          \A k \in 1..Len(ins) :
              ins[k].pc = "collected" /\ issued[inserts_to_execute[k].row_idx] = 1

\* one row failed, and was counted, and another was inserted
C10_Witness ==
    \E k, j \in 1..Len(ins) :
        /\ ins[k].pc = "collected" /\ ins[k].status = -1
        /\ ins[j].pc # "queued" /\ ins[j].status = 1

(***************************************************************************)
(* C11: when count_table_records returns None or 0, no page is fetched and *)
(* every CSV key is sent to the insert executor; a row that the target     *)
(* already holds is then rejected by the database and counted as skipped,  *)
(* not as failed and not as inserted.                                      *)
(***************************************************************************)
count_null_or_zero == pc \in {"prepare", "insert", "returned"} /\ count \in {CountNone, 0}

sent_to_insert_executor == pc \in {"insert", "returned"} => Len(ins) = Len(loaded)

\* the database answered the statement k: it stored the row or rejected it
answered_by_database(k) ==
    /\ ins[k].pc \in {"done", "collected"}
    /\ ~ins[k].result.raised
    /\ (ins[k].result.returncode = 0 \/ has_duplicate_signature(ins[k].result.stderr))

C11_ExistingRowsAreSkipped ==
    count_null_or_zero =>
        /\ cmp = <<>>
        /\ dict_keys(csv_records) = dict_keys(loaded)
        /\ sent_to_insert_executor
        /\ \A k \in 1..Len(ins) :
              (answered_by_database(k) /\ ins[k].existed) => ins[k].status = 0

(***************************************************************************)
(* C11, as the code and a table with or without a primary key have it:     *)
(* with the count None or 0 no page is fetched and every CSV key is sent   *)
(* to the insert executor; a statement the database rejects for its        *)
(* primary key is counted as skipped, never as failed or inserted, and a   *)
(* row whose declared primary key the target already holds is never        *)
(* inserted.                                                               *)
(***************************************************************************)
C11_RejectedRowsAreSkipped ==
    count_null_or_zero =>
        /\ cmp = <<>>
        /\ dict_keys(csv_records) = dict_keys(loaded)
        /\ sent_to_insert_executor
        /\ \A k \in 1..Len(ins) :
              ins[k].pc \in {"done", "collected"} =>
                  /\ (~ins[k].result.raised /\ has_duplicate_signature(ins[k].result.stderr))
                        => ins[k].status = 0
                  /\ (answered_by_database(k) /\ ins[k].existed
                        /\ create_sql.pk_section # <<>>) => ins[k].status = 0

\* the count failed on a table that holds a CSV row, and the row was rejected
C11_Witness ==
    /\ pc = "returned"
    /\ cmp = <<>>
    /\ count = CountNone
    /\ db # <<>>
    /\ \E k \in 1..Len(ins) :
          ins[k].existed /\ ins[k].status = 0 /\ has_duplicate_signature(ins[k].result.stderr)

(***************************************************************************)
(* C20: <table>.err is written if and only if the run of the table         *)
(* recorded at least one failed row, and it then holds, after its heading, *)
(* one message with the row ordinal for each failed row.                   *)
(***************************************************************************)
failed_rows == {inserts_to_execute[k].row_idx : k \in {j \in 1..Len(ins) : ins[j].status = -1}}

C20_ErrFileIffFailedRows ==
    /\ pc # "returned" => err_file = <<>>
    /\ pc = "returned" =>
          /\ err_file # <<>> <=> failed_inserts # <<>>
          /\ err_file # <<>> =>
                /\ Head(err_file) = err_header
                /\ Tail(err_file) = failed_inserts
                /\ Len(err_file) = 1 + Cardinality(failed_rows)
                /\ \A r \in failed_rows :
                      Cardinality({n \in 2..Len(err_file) : err_file[n].row_idx = r}) = 1

C20_Witness ==
    /\ pc = "returned"
    /\ Len(err_file) = 2
    /\ \E k \in 1..Len(ins) : ins[k].status = 1

(***************************************************************************)
(* C15: every client call made for a table (the count, a page fetch, a     *)
(* single-row insert) returns or fails with a timeout error: no call is    *)
(* left waiting for a client process that never answers, which would keep  *)
(* its worker, and with it the phase, from ever completing.                *)
(***************************************************************************)
waits_without_limit(timeout, process) == execute_query(timeout, process).blocked

C15_EveryCallReturns ==
    /\ \A process \in CountProcesses(Len(db)) : ~waits_without_limit(count_timeout, process)
    /\ \A b \in 1..Len(cmp) :
          \A process \in PageProcesses(columns, db, (b - 1) * batch_size, batch_size) :
              ~waits_without_limit(page_timeout, process)
    /\ \A k \in 1..Len(ins) :
          ins[k].pc # "queued" => ~waits_without_limit(NoTimeout, ins[k].process)

(***************************************************************************)
(* C16: an insert whose client process does not answer ends as a hard      *)
(* failure of that row, with one message that carries the row ordinal and  *)
(* identifies the timeout, which no SQL execution error does.              *)
(***************************************************************************)
C16_InsertTimeoutIsRowFailure ==
    \A k \in 1..Len(ins) :
        /\ ins[k].pc # "queued" /\ ins[k].process.kind = "never_exits" =>
              /\ ins[k].status = -1
              /\ Len(ins[k].error_msg) = 1
              /\ ins[k].error_msg[1].row_idx = inserts_to_execute[k].row_idx
              /\ contains(ins[k].error_msg[1].text, TIMEOUT)
        /\ ins[k].pc # "queued" /\ ins[k].process.kind = "exits" =>
              \A n \in 1..Len(ins[k].error_msg) : ~contains(ins[k].error_msg[n].text, TIMEOUT)

(***************************************************************************)
(* C17: count_table_records answers None, never 0 or another number, when  *)
(* the client call fails or times out, when the client exits non-zero,     *)
(* when it prints nothing, and when the first line that is neither blank   *)
(* nor the COUNT header is not an integer; in every other case it answers  *)
(* the integer on that line.  It always answers: no call raises.           *)
(***************************************************************************)
counted == client_call # <<>> /\ client_call.method = "count_table_records"

count_fails(process) ==
    \/ process.kind # "exits"
    \/ process.returncode # 0
    \/ process.stdout = <<>>
    \/ count_lines(process.stdout) = <<>>
    \/ ~is_int(count_lines(process.stdout)[1])

C17_CountIsNoneOnFailure ==
    counted =>
        IF count_fails(client_call.process)
        THEN client_call.value = CountNone
        ELSE /\ client_call.value = int(count_lines(client_call.process.stdout)[1])
             /\ client_call.value >= 0

C17_Witness ==
    /\ counted
    /\ client_call.process.kind = "exits"
    /\ client_call.process.returncode = 0
    /\ client_call.process.stdout = <<<<COUNT, "(", "*", ")">>, <<"x">>>>
    /\ client_call.value = CountNone

(***************************************************************************)
(* C18: get_table_records_paginated answers the empty list when the client *)
(* exits non-zero, prints nothing or the call raises; otherwise, for an    *)
(* output made of the header, the data rows and the rows-selected footer,  *)
(* it answers one tuple per data row, each of len(columns) entries.        *)
(***************************************************************************)
paged == client_call # <<>> /\ client_call.method = "get_table_records_paginated"

is_footer(row) == row \in { << <<"1", SP, RS>> >>, << <<"n", SP, RSS>> >> }

\* the header, then data rows, then the footer
header_data_footer(stdout, cols) ==
    /\ Len(stdout) >= 2
    /\ stdout[1] = cols
    /\ is_footer(stdout[Len(stdout)])
    /\ \A n \in 2..(Len(stdout) - 1) : stdout[n] # <<>> /\ ~is_footer(stdout[n])

C18_OneTuplePerDataRow ==
    paged =>
        LET process == client_call.process
            cols == client_call.columns
            value == client_call.value
        IN  /\ process.kind # "exits" \/ process.returncode # 0 \/ process.stdout = <<>>
                   => value = <<>>
            /\ process.kind = "exits" /\ process.returncode = 0 /\ cols # <<>>
                 /\ header_data_footer(process.stdout, cols) =>
                   /\ Len(value) = Len(process.stdout) - 2
                   /\ \A n \in 1..Len(value) : Len(value[n]) = Len(cols)

(***************************************************************************)
(* C12: when the import run has ended and at least one table finished with *)
(* failed rows, the exit code of the process is not zero.                  *)
(***************************************************************************)
table_with_failed_rows(n) == main.reports[n].errors > 0

C12_ExitCodeTellsFailedRows ==
    main.pc = "exited" /\ (\E n \in 1..Len(main.reports) : table_with_failed_rows(n))
        => main.exit_code # 0

(***************************************************************************)
(* C13: a table with a non-zero count of failed rows is reported as        *)
(* failed; the tables are taken in sorted order, and once a table has been *)
(* reported as failed the loop is left only after every table of the list  *)
(* has been processed and the process ends only with the summary printed,  *)
(* the failed table counted in it.                                         *)
(***************************************************************************)
C13_FailedTableDoesNotStopTheRun ==
    /\ \A i, j \in 1..Len(main.csv_files) : i < j => main.csv_files[i] < main.csv_files[j]
    /\ \A n \in 1..Len(main.reports) :
          /\ main.reports[n].table_path = main.csv_files[n]
          /\ table_with_failed_rows(n) =>
                /\ ~main.reports[n].success
                /\ main.error_count >= 1
                /\ main.pc \in {"loop", "table", "summary", "exited"}
                /\ main.pc \in {"loop", "table"} => main.idx = Len(main.reports) + 1
                /\ main.pc \in {"summary", "exited"} =>
                      Len(main.reports) = Len(main.csv_files)
                /\ main.pc = "exited" =>
                      /\ main.summary # <<>>
                      /\ main.summary[1].tables = Len(main.csv_files)
                      /\ main.summary[1].error_count >= 1

C13_Witness ==
    /\ main.pc = "exited"
    /\ Len(main.reports) = 2
    /\ table_with_failed_rows(1)
    /\ main.reports[2].success
    /\ main.reports[2].inserted = 1
    /\ main.summary # <<>>

(***************************************************************************)
(* C14: when the client cannot be built or the connection test fails (the  *)
(* test statement exits non-zero, gets no answer within its timeout or     *)
(* cannot be run), the process has exited with a non-zero code, and no     *)
(* table has been begun: no count, no page fetch and no insert has been    *)
(* issued, then or in any later state.                                     *)
(***************************************************************************)
liveness_check_failed ==
    /\ main.connection # <<>>
    /\ \/ ~main.connection[1].constructed
       \/ main.connection[1].process.kind # "exits"
       \/ main.connection[1].process.returncode # 0

no_statement_issued ==
    /\ main.idx = 0
    /\ main.reports = <<>>
    /\ pc = "start"
    /\ cmp = <<>>
    /\ ins = <<>>
    /\ \A r \in DOMAIN issued : issued[r] = 0

C14_FailedLivenessCheckIsFatal ==
    liveness_check_failed =>
        /\ main.pc = "exited"
        /\ main.exit_code # 0
        /\ main.summary = <<>>
        /\ no_statement_issued

C14_Witness ==
    /\ liveness_check_failed
    /\ main.connection[1].constructed
    /\ main.connection[1].process.kind = "never_exits"
    /\ main.pc = "exited"
    /\ main.exit_code = 1

(***************************************************************************)
(* C19: in the polling loop a failed sample draws nothing and is followed  *)
(* by the wait and the next test of the loop: the loop ends only once the  *)
(* stop event is set.  Once stop() has returned for a started monitor,     *)
(* exactly one sample was taken after the signal and it was drawn.         *)
(***************************************************************************)
C19_OneFinalSampleRendered ==
    /\ mon.loop = "ended" => mon.stop_event
    /\ mon.pc = "stopped" /\ mon.thread /\ mon.loop = "ended" =>
          /\ mon.samples_after_stop = 1
          /\ mon.renders_after_stop = 1

(***************************************************************************)
(* C21: get_schema_name answers the first name available among the         *)
(* environment variable SCHEMA, the SCHEMA line of the configuration file, *)
(* the schema found in the archive and the schema found in the extracted   *)
(* directory, and None only when none of the four holds a name.            *)
(***************************************************************************)
schema_asked == util_call # <<>> /\ util_call.function = "get_schema_name"

first_available(values) ==
    IF \E n \in 1..Len(values) : truthy(values[n])
    THEN values[Min({n \in 1..Len(values) : truthy(values[n])})]
    ELSE None

C21_FirstAvailableSchemaSource ==
    schema_asked =>
        util_call.value =
            first_available(<<util_call.env_SCHEMA,
                              IF util_call.config_file.has_SCHEMA
                              THEN util_call.config_file.SCHEMA ELSE None,
                              IF util_call.tar_exists THEN util_call.from_tar ELSE None,
                              util_call.from_extracted>>)

(***************************************************************************)
(* C30: for a positive planned total, the percentage format_progress shows *)
(* lies between 0 and 100, whatever the current and the baseline count.    *)
(***************************************************************************)
progress_formatted == util_call # <<>> /\ util_call.function = "format_progress"

C30_PercentWithinBounds ==
    progress_formatted /\ util_call.total_inserts > 0 =>
        /\ util_call.value.percent >= 0
        /\ util_call.value.percent <= 1000

(***************************************************************************)
(* C22: a page fetch that failed or came back empty removes no CSV row,    *)
(* and when reconciliation ends every CSV key that is the key of no live   *)
(* row is still pending.                                                   *)
(***************************************************************************)
C22_UnmatchedRowsStayPending ==
    /\ \A b \in 1..Len(cmp) :
          cmp[b].pc # "queued" /\ cmp[b].hana_batch = <<>> =>
              cmp[b].duplicates_found = <<>> /\ cmp[b].batch_skipped = 0
    /\ Reconciled => dict_keys(loaded) \ live_keys \subseteq dict_keys(csv_records)

(***************************************************************************)
(* C23: a key leaves the pending map and is counted as a duplicate in one  *)
(* step: all through reconciliation the size of the pending map plus the   *)
(* duplicates counted (by the tasks, and by the caller once it has taken   *)
(* a task's count) is the number of distinct CSV keys loaded.  In the      *)
(* insert phase the counters change only in a step that takes one finished *)
(* task and adds its one outcome: no two updates overlap.                  *)
(***************************************************************************)
RECURSIVE counted_by_tasks(_)
counted_by_tasks(tasks) ==
    IF tasks = <<>> THEN 0
    ELSE (IF Head(tasks).pc = "collected" THEN 0 ELSE Head(tasks).batch_skipped)
             + counted_by_tasks(Tail(tasks))

removal_is_counted ==
    pc = "compare" \/ Reconciled =>
        Len(csv_records) + counted_by_tasks(cmp) + skipped_count = Len(loaded)

one_update_at_a_time ==
    (pc = "insert" /\ <<inserted, skipped, failed_inserts>>' # <<inserted, skipped, failed_inserts>>)
        => \E k \in DOMAIN ins :
              /\ ins[k].pc = "done"
              /\ ins' = [ins EXCEPT ![k].pc = "collected"]
              /\ inserted' + skipped' + Len(failed_inserts')
                    = inserted + skipped + Len(failed_inserts) + 1

C23_RemovalAndCountAreOneStep == []removal_is_counted /\ [][one_update_at_a_time]_vars

C23_Witness ==
    /\ pc = "compare"
    /\ \E b \in 1..Len(cmp) : cmp[b].pc = "remove" /\ cmp[b].batch_skipped = 1
                                 /\ cmp[b].i = 2 /\ csv_lock = b
    /\ Len(csv_records) < Len(loaded)

(***************************************************************************)
(* C24: at most 5 page tasks and at most 10 single-row inserts are in      *)
(* flight at any moment, however many were submitted.                      *)
(***************************************************************************)
C24_BoundedWorkers ==
    pool # <<>> =>
        in_flight(pool.tasks) <= IF pool.phase = "compare" THEN 5 ELSE 10

C24_Witness ==
    /\ pool # <<>>
    /\ pool.phase = "insert"
    /\ in_flight(pool.tasks) = 10
    /\ \E k \in 1..Len(pool.tasks) : pool.tasks[k] = "queued"

(***************************************************************************)
(* C25: the phases of a table do not overlap and neither do the tables:    *)
(* an insert is sent only when every page task of the table has ended and  *)
(* was taken by the caller, and the run is outside a table (before the     *)
(* next one, or at the summary) only when every insert task of the last    *)
(* table has ended and was taken and the table's outcome is reported.      *)
(***************************************************************************)
insert_sent == \E k \in 1..Len(ins) : ins[k].pc # "queued"

C25_PhasesDoNotOverlap ==
    /\ pc = "insert" \/ insert_sent => \A b \in 1..Len(cmp) : cmp[b].pc = "collected"
    /\ main.pc # "table" =>
          /\ pc \in {"start", "returned"}
          /\ \A b \in 1..Len(cmp) : cmp[b].pc = "collected"
          /\ \A k \in 1..Len(ins) : ins[k].pc = "collected"
          /\ pc = "returned" =>
                \E n \in 1..Len(main.reports) :
                    /\ readable(TablePool[main.reports[n].table_path])
                    /\ main.reports[n].inserted = inserted
                    /\ main.reports[n].skipped = skipped
                    /\ main.reports[n].errors = Len(failed_inserts)

C25_Witness ==
    /\ main.pc = "loop"
    /\ Len(main.reports) = 1
    /\ main.idx = 2
    /\ pc = "returned"
    /\ cmp # <<>>
    /\ Len(ins) = 1
    /\ ins[1].pc = "collected"

(***************************************************************************)
(* C27: a table whose create.sql is missing or yields no column, or whose  *)
(* CSV is missing, is reported with zero rows inserted, skipped and failed *)
(* in a step that sends no statement (nothing of the import of a table     *)
(* moves), and the loop goes on: the run reaches the summary only with     *)
(* every table of the list reported.                                       *)
(***************************************************************************)
reported_unreadable(m, n) ==
    LET t == TablePool[m.reports[n].table_path]
    IN  ~t.has_create_sql \/ t.create_sql.columns = <<>> \/ ~t.has_csv

skipped_table_has_zeros ==
    /\ \A n \in 1..Len(main.reports) :
          reported_unreadable(main, n) =>
              /\ main.reports[n].inserted = 0
              /\ main.reports[n].skipped = 0
              /\ main.reports[n].errors = 0
    /\ main.pc \in {"summary", "exited"} /\ main.reports # <<>> =>
          Len(main.reports) = Len(main.csv_files)

skipped_table_sends_nothing ==
    (Len(main'.reports) = Len(main.reports) + 1
        /\ reported_unreadable(main', Len(main'.reports)))
    => /\ main.pc = "loop"
       /\ main'.idx = main.idx + 1
       /\ UNCHANGED table_vars

C27_UnreadableTableIsSkipped ==
    []skipped_table_has_zeros /\ [][skipped_table_sends_nothing]_vars

C27_Witness ==
    /\ main.pc = "table"
    /\ Len(main.reports) = 1
    /\ TablePool[main.reports[1].table_path].has_create_sql
    /\ TablePool[main.reports[1].table_path].create_sql.columns = <<>>
    /\ pc = "insert"

(***************************************************************************)
(* C26: once the CSV is read, the pending map holds one entry for every    *)
(* key of a non-empty row, with the ordinal and the values of the last row *)
(* that has the key; and at most one insert is sent per key.               *)
(***************************************************************************)
non_empty_rows == {r \in 1..Len(csv_content) : csv_content[r] # <<>>}

values_of_row(r) == pad_row(csv_content[r], Len(columns))

key_of_row(r) == csv_key(values_of_row(r), ident)

last_row_with(key) == Max({r \in non_empty_rows : key_of_row(r) = key})

C26_LastRowWins ==
    /\ pc = "count" =>
          /\ dict_keys(csv_records) = {key_of_row(r) : r \in non_empty_rows}
          /\ Len(csv_records) = Cardinality({key_of_row(r) : r \in non_empty_rows})
          /\ \A e \in 1..Len(csv_records) :
                /\ csv_records[e].row_idx = last_row_with(csv_records[e].key)
                /\ csv_records[e].values = values_of_row(csv_records[e].row_idx)
    /\ pc \in {"insert", "returned"} =>
          /\ \A r \in DOMAIN issued : issued[r] <= 1
          /\ \A i, j \in 1..Len(inserts_to_execute) :
                i # j => key_of_row(inserts_to_execute[i].row_idx)
                            # key_of_row(inserts_to_execute[j].row_idx)
          /\ \A i \in 1..Len(inserts_to_execute) :
                inserts_to_execute[i].row_idx
                    = last_row_with(key_of_row(inserts_to_execute[i].row_idx))

C26_Witness ==
    /\ pc = "insert"
    /\ Len(csv_content) = 2
    /\ non_empty_rows = {1, 2}
    /\ key_of_row(1) = key_of_row(2)
    /\ values_of_row(1) # values_of_row(2)
    /\ Len(ins) = 1
    /\ ins[1].pc = "done"
    /\ inserts_to_execute[1].row_idx = 2
    /\ issued[2] = 1

(***************************************************************************)
(* C28: once stop() has returned for a started monitor, the thread of      *)
(* _monitor_loop has ended, so that the line stop() wrote is the last one. *)
(***************************************************************************)
C28_ThreadEndedWhenStopReturns ==
    mon # <<>> /\ mon.pc = "stopped" /\ mon.thread => mon.loop = "ended"

\* the files whose execute_sql_file call has returned
finished_files ==
    { i \in 1..Len(sql_file.threads) :
        i < current_file \/ sql_file.pc = "idle" }

(***************************************************************************)
(* C29: whichever way execute_sql_file ended for a file (success, client   *)
(* error, timeout, other exception), the event of a progress thread it     *)
(* started is set, so that the thread leaves its loop.                     *)
(***************************************************************************)
C29_StartedThreadIsToldToStop ==
    sql_file # <<>> =>
        \A i \in finished_files :
            sql_file.threads[i].progress_thread =>
                sql_file.threads[i].stop_event

=============================================================================
